---- MODULE Spec2Model ----
(***************************************************************************)
(* A model of the session state machine of voice_assistant.VoiceAssistant  *)
(* (assistant.py) with the capture buffer of AudioCapture (audio.py) and    *)
(* the signal handler of __main__.py.                                       *)
(*                                                                         *)
(* The assistant runs on one asyncio event loop: a coroutine runs without   *)
(* interruption from one await to the next, so every action below is one    *)
(* such segment of one coroutine (run(), or one of the three tasks of a     *)
(* session), from the resumption of an await to the next await.  The audio  *)
(* callback thread, the clock, the backend and the caller of shutdown()     *)
(* are the environment.                                                     *)
(***************************************************************************)
EXTENDS Integers, Sequences, FiniteSets

(* ------------------------------- bounds -------------------------------- *)
MaxSessions == 1
Timeout == 1
BufferMaxLen == 2

Sessions == 1..MaxSessions
Roles == {"send", "receive", "timeout"}
AssistantState == {"LISTENING", "ACTIVATED", "RESPONDING"}
(* A frame carries a tag that says whether it was captured while the        *)
(* assistant was playing synthesized audio.                                 *)
Frames == {"quiet", "playback"}
FunctionNames == {"end_session", "other"}

VARIABLES
    _running,             \* VoiceAssistant._running
    _state,               \* VoiceAssistant._state
    elapsed,              \* time.monotonic() - _last_activity_time, counted up to Timeout
    _active_tasks,        \* VoiceAssistant._active_tasks, a set of <<session, role>>
    config,               \* wakeword_config: enabled
    main,                 \* the coroutine run(): where it is suspended
    session,              \* number of the session _run_session last started
    tasks,                \* the asyncio tasks of each session
    recv,                 \* the locals of _receive_audio of each session
    channel,              \* the backend channel of the session: none, open, broken, closed
    capture,              \* AudioCapture: _running, _stream
    player,               \* AudioPlayer: _running, _stream
    _buffer,              \* AudioCapture._buffer
    _event,               \* AudioCapture._event
    unanswered,           \* calls of the turn in progress with no tool response sent
    turn_closed,          \* names of the calls unanswered when their turn-complete was processed
    echo_canceller,       \* AudioCapture._echo_canceller is not None
    _lock,                \* AudioCapture._lock: who holds it
    callback,             \* the device thread inside AudioCapture._audio_callback
    gen,                  \* the generator AudioCapture.stream() of the consumer
    device,               \* frames delivered by the device, time since AudioCapture.stop()
    aec,                  \* an AcousticEchoCanceller: its attributes
    effects,              \* a GLaDOSEffectsProcessor: its attributes
    coop,                 \* cooperative code inside AudioPlayer.play_sync, clear() or reset()
    wiring                \* AudioPlayer: _echo_canceller, _effects_processor are not None

vars == <<_running, _state, elapsed, _active_tasks, config, main,
          session, tasks, recv, channel, capture, player, _buffer, _event,
          unanswered, turn_closed, echo_canceller, _lock, callback, gen, device,
          aec, effects, coop, wiring>>

(* The variables of the audio components that the coroutines of the         *)
(* assistant reach only through the calls modelled above them.              *)
audio_vars == <<echo_canceller, _lock, callback, gen, device,
                aec, effects, coop, wiring>>

(* ------------------------------ helpers -------------------------------- *)
NoTask == [pc |-> "none", cancel |-> FALSE, exit |-> "-"]
NewTask == [pc |-> "new", cancel |-> FALSE, exit |-> "-"]
Done(how) == [pc |-> "done", cancel |-> FALSE, exit |-> how]
At(pc) == [pc |-> pc, cancel |-> FALSE, exit |-> "-"]

NoResponse == [calls |-> <<>>, model_turn |-> FALSE, turn_complete |-> FALSE]
NoLocals == [end_session_requested |-> FALSE, response |-> NoResponse, idx |-> 0]

(* The messages of the backend, with the parts _receive_audio reads: the    *)
(* function calls of response.tool_call, and model_turn and turn_complete   *)
(* of response.server_content.  A message is one event of the channel: a    *)
(* tool call, a chunk of model-turn audio, a turn-complete marker, or an    *)
(* event with none of these parts.                                          *)
CallLists == {<<"other">>, <<"end_session">>, <<"other", "end_session">>}
Response(c, m, t) == [calls |-> c, model_turn |-> m, turn_complete |-> t]
Responses ==
    {Response(c, FALSE, FALSE) : c \in CallLists}
        \cup {Response(<<>>, TRUE, FALSE), Response(<<>>, FALSE, TRUE),
              Response(<<>>, FALSE, FALSE)}

(* The function calls of a message, each with its identifier (here its      *)
(* position in the message).                                                *)
FunctionCalls(m) == {[id |-> i, name |-> m.calls[i]] : i \in 1..Len(m.calls)}

Pending(t) == t.pc \notin {"none", "done"}

(* The event loop runs what is ready in the order in which it became ready: *)
(* the tasks created at lines 280-282 take their first steps in that order, *)
(* before any of them is resumed and before run() is.                       *)
Begun(s) == \A r \in Roles : tasks[s][r].pc # "new"

(* The channel a task of session s talks to: the context of an earlier      *)
(* session has been exited.                                                 *)
ChannelOf(s) == IF s = session THEN channel ELSE "closed"

Stopped == [running |-> FALSE, stream |-> FALSE]
Started == [running |-> TRUE, stream |-> TRUE]

(* deque(maxlen=...).append: the oldest frame is dropped when full.         *)
Append_maxlen(buf, x) ==
    IF Len(buf) < BufferMaxLen THEN Append(buf, x) ELSE Append(Tail(buf), x)

Playing == _state = "RESPONDING" \/ main.pc = "greet_recv"

(* WakeWordConfig.activation_prompt is not empty: its default, and the      *)
(* prompt of every personality of config.py.                                *)
activation_prompt == TRUE

(* The callback thread outside _audio_callback; the generator before        *)
(* stream() is called; the device before start().                           *)
NoCall == [pc |-> "idle", in_data |-> 0]
NoGen == [pc |-> "none", waited |-> 0, data |-> 0, batch |-> 0, queued |-> 0,
          left |-> FALSE]
NoDevice == [calls |-> 0, stopped |-> FALSE, since_stop |-> 0]

(* AcousticEchoCanceller after __init__ (lines 48-78): an empty reference   *)
(* queue, an empty accumulation buffer (its length is kept), a free lock,   *)
(* no shutdown.  __init__ creates none of the attributes the filter uses    *)
(* (_fft_size, _ref_buffer, _W, _P, _beta, _eps, _mu): filter is "unset".   *)
(* made counts the blocks enqueued so far; a block is named by its number.  *)
NewAec == [_playback_queue |-> <<>>, _playback_buffer |-> 0,
           _shutdown |-> FALSE, _lock |-> "none", filter |-> "unset",
           made |-> 0]

(* GLaDOSEffectsProcessor after __init__ (lines 14-37): the chorus buffer,  *)
(* its cursor, the LFO phase and the resonance registers are zero (clean).  *)
(* The class has no lock.                                                   *)
NewEffects == [clean |-> TRUE]

(* The cooperative code outside the audio components.                       *)
NoCoop == [pc |-> "idle", data |-> 0]

(* ------------------------------- Init ---------------------------------- *)
Init ==
    /\ _running = FALSE
    /\ _state = "LISTENING"
    /\ elapsed = 0
    /\ _active_tasks = {}
    /\ config \in [wake_enabled : BOOLEAN]
    /\ main = [pc |-> "start", cancel |-> FALSE, detector |-> "clear"]
    /\ session = 0
    /\ tasks = [s \in Sessions |-> [r \in Roles |-> NoTask]]
    /\ recv = [s \in Sessions |-> NoLocals]
    /\ channel = "none"
    /\ capture = Stopped
    /\ player = Stopped
    /\ _buffer = <<>>
    /\ _event = FALSE
    /\ unanswered = {}
    /\ turn_closed = {}
    /\ echo_canceller = FALSE
    /\ _lock = "none"
    /\ callback = NoCall
    /\ gen = NoGen
    /\ device = NoDevice
    /\ aec = NewAec
    /\ effects = NewEffects
    /\ coop = NoCoop
    /\ wiring = [echo_canceller |-> FALSE, effects_processor |-> TRUE]

(* ----------------------- VoiceAssistant.shutdown ----------------------- *)
(* task.cancel() for every task of the list that is not done.               *)
CancelTasks(ts, which) ==
    [s \in Sessions |-> [r \in Roles |->
        IF <<s, r>> \in which /\ Pending(ts[s][r])
        THEN [ts[s][r] EXCEPT !.cancel = TRUE]
        ELSE ts[s][r]]]

(* What shutdown() does to the tasks: nothing when the assistant is not     *)
(* running, else every task of _active_tasks that is not done is cancelled. *)
shutdown_tasks ==
    IF ~_running THEN tasks ELSE CancelTasks(tasks, _active_tasks)

(* shutdown() without the test of line 343.                                 *)
shutdown_fields_unguarded(st) ==
    /\ _running' = FALSE
    /\ _state' = "LISTENING"
    /\ _active_tasks' = {}
    /\ capture' = Stopped
    /\ player' = Stopped

(* What shutdown(), called when _state holds st, does to the other fields.  *)
shutdown_fields(st) ==
    IF ~_running
    THEN /\ _state' = st
         /\ UNCHANGED <<_running, _active_tasks, capture, player>>
    ELSE /\ _running' = FALSE
         /\ _state' = "LISTENING"
         /\ _active_tasks' = {}
         /\ capture' = Stopped
         /\ player' = Stopped

(* shutdown(), called when _state holds st.                                 *)
shutdown(st) ==
    /\ shutdown_fields(st)
    /\ tasks' = shutdown_tasks

(* --------------------------- VoiceAssistant.run ------------------------- *)
(* The wake-word detector, as far as the assistant sees it: what reset()    *)
(* leaves (line 219) and what process_audio leaves of a detector in state d *)
(* (line 225).  main.detector holds the state of the detector.              *)
WakeWordDetector_reset(d) == "clear"

WakeWordDetector_process_audio(d) == "fed"

(* The finally clause of run(), the detector left in state d: shutdown(),   *)
(* and run() returns.                                                       *)
run_returns(st, d) ==
    /\ main' = [main EXCEPT !.pc = "returned", !.cancel = FALSE, !.detector = d]
    /\ shutdown(st)
    /\ UNCHANGED <<session, elapsed>>

run_finally(st) == run_returns(st, main.detector)

(* _run_session up to its first await, the connection to the backend, the   *)
(* detector left in state d.                                                *)
_run_session_connect(d) ==
    /\ session < MaxSessions
    /\ _state' = "ACTIVATED"
    /\ elapsed' = 0
    /\ session' = session + 1
    /\ main' = [main EXCEPT !.pc = "connect", !.cancel = FALSE, !.detector = d]
    /\ UNCHANGED <<_running, _active_tasks, tasks, capture, player>>

_run_session_begin == _run_session_connect(main.detector)

(* The stream of line 221 waits for frames, the detector in state d; a      *)
(* stopped capture ends the stream, the method returns False and run()      *)
(* leaves its loop.                                                         *)
stream_wait(st, d) ==
    IF capture.running
    THEN /\ main' = [main EXCEPT !.pc = "listen", !.cancel = FALSE, !.detector = d]
         /\ _state' = st
         /\ UNCHANGED <<_running, _active_tasks, tasks, capture, player,
                        session, elapsed>>
    ELSE run_returns(st, d)

(* _listen_for_wakeword up to its first await: the detector is reset and    *)
(* the capture stream is entered; a stopped capture ends the stream, the    *)
(* method returns False and run() leaves its loop.                          *)
_listen_for_wakeword_begin_without_reset(st) ==
    stream_wait(st, main.detector)

_listen_for_wakeword_begin(st) ==
    stream_wait(st, WakeWordDetector_reset(main.detector))

(* The top of the loop of run().                                            *)
run_loop(st) ==
    IF ~_running THEN run_finally(st)
    ELSE IF config.wake_enabled THEN _listen_for_wakeword_begin(st)
    ELSE _run_session_begin

(* The last line of _run_session and the rest of the loop body of run().    *)
_run_session_end ==
    IF config.wake_enabled THEN run_loop("LISTENING") ELSE run_finally("LISTENING")

(* run() from its call to its first await.                                  *)
run ==
    /\ main.pc = "start"
    /\ _running' = TRUE
    /\ capture' = Started
    /\ player' = Started
    /\ IF config.wake_enabled
       THEN /\ main' = [main EXCEPT !.pc = "listen", !.cancel = FALSE,
                                    !.detector = WakeWordDetector_reset(@)]
            /\ UNCHANGED <<_state, elapsed, session>>
       ELSE /\ _state' = "ACTIVATED"
            /\ elapsed' = 0
            /\ session' = session + 1
            /\ main' = [main EXCEPT !.pc = "connect", !.cancel = FALSE]
    /\ UNCHANGED <<_active_tasks, config, audio_vars, tasks, recv, channel, _buffer, _event, unanswered, turn_closed>>

(* The answers of the detector at line 225 to the frames of a batch: the    *)
(* position of the first frame for which process_audio returns a label, 0   *)
(* when it returns none.  Any frame may be the one.                         *)
process_audio(buf) == 0..Len(buf)

listen_result_true_when_stopped(running, k) ==
    IF ~running THEN "detected" ELSE IF k = 0 THEN "nothing" ELSE "detected"

(* Lines 222-230 for a batch in which the detector answers at position k:   *)
(* what _listen_for_wakeword does with the first frame it is given.         *)
listen_result(running, k) ==
    IF ~running THEN "stopped" ELSE IF k = 0 THEN "nothing" ELSE "detected"

(* _listen_for_wakeword resumed by the stream's wait.  With the event set,  *)
(* the queued frames are fed to the detector one by one; on the 100 ms      *)
(* timeout with capture stopped the stream ends (with capture running the   *)
(* timeout only repeats the wait).                                          *)
_listen_for_wakeword ==
    /\ main.pc = "listen"
    /\ ~main.cancel
    /\ IF _event THEN _event' = FALSE ELSE ~capture.running /\ _event' = _event
    /\ IF ~_event
       THEN /\ _buffer' = _buffer
            /\ run_finally(_state)
       ELSE IF _buffer = <<>>
       THEN /\ _buffer' = _buffer
            /\ stream_wait(_state, main.detector)
       ELSE \E k \in process_audio(_buffer) :
            LET r == listen_result(_running, k)
                fed == WakeWordDetector_process_audio(main.detector)
            IN
            IF r = "stopped"
            THEN /\ _buffer' = Tail(_buffer)
                 /\ run_finally(_state)
            ELSE IF r = "nothing"
            THEN /\ _buffer' = <<>>
                 /\ stream_wait(_state, fed)
            ELSE /\ _buffer' = SubSeq(_buffer, k + 1, Len(_buffer))
                 /\ _run_session_connect(fed)
    /\ UNCHANGED <<config, audio_vars, recv, channel, unanswered, turn_closed>>

(* ------------------------ VoiceAssistant._run_session ------------------- *)
(* Lines 277-289: the three tasks are created and tracked, and gathered.    *)
create_tasks ==
    /\ elapsed' = 0
    /\ tasks' = [tasks EXCEPT ![session] = [r \in Roles |-> NewTask]]
    /\ recv' = [recv EXCEPT ![session] = NoLocals]
    /\ unanswered' = {}
    /\ _active_tasks' = {<<session, r>> : r \in Roles}
    /\ main' = [main EXCEPT !.pc = "gather", !.cancel = FALSE]

(* The connection is made: the greeting prompt is sent when one is          *)
(* configured, else the tasks are created.                                  *)
connect_ok ==
    /\ main.pc = "connect"
    /\ ~main.cancel
    /\ channel' = "open"
    /\ IF activation_prompt
       THEN /\ main' = [main EXCEPT !.pc = "greet_send", !.cancel = FALSE]
            /\ UNCHANGED <<elapsed, tasks, recv, unanswered, _active_tasks>>
       ELSE create_tasks
    /\ UNCHANGED <<_running, _state, config, audio_vars, session, capture, player, _buffer,
                   _event, turn_closed>>

(* The connection fails: "Session error", and line 300.                     *)
connect_error ==
    /\ main.pc = "connect"
    /\ ~main.cancel
    /\ _run_session_end
    /\ UNCHANGED <<config, audio_vars, recv, channel, _buffer, _event, unanswered, turn_closed>>

(* The send of the greeting prompt returns, or raises on a failed channel   *)
(* and the connection context is left.                                      *)
greeting_sent ==
    /\ main.pc = "greet_send"
    /\ ~main.cancel
    /\ main' = [main EXCEPT !.pc = IF channel = "open" THEN "greet_recv" ELSE "closing",
                             !.cancel = FALSE]
    /\ UNCHANGED <<_running, _state, elapsed, _active_tasks, config, audio_vars,
                   session, tasks, recv, channel, capture, player, _buffer,
                   _event, unanswered, turn_closed>>

(* A message of the greeting turn: audio is played, turn-complete ends the  *)
(* wait and the tasks are created.                                          *)
greeting_received(m) ==
    /\ main.pc = "greet_recv"
    /\ ~main.cancel
    /\ channel = "open"
    /\ IF m.turn_complete
       THEN create_tasks
       ELSE UNCHANGED <<elapsed, tasks, recv, unanswered, _active_tasks, main>>
    /\ UNCHANGED <<_running, _state, config, audio_vars, session, channel, capture, player,
                   _buffer, _event, turn_closed>>

(* Receiving the greeting fails: the connection context is left.            *)
greeting_error ==
    /\ main.pc = "greet_recv"
    /\ ~main.cancel
    /\ channel # "open"
    /\ main' = [main EXCEPT !.pc = "closing", !.cancel = FALSE]
    /\ UNCHANGED <<_running, _state, elapsed, _active_tasks, config, audio_vars,
                   session, tasks, recv, channel, capture, player, _buffer,
                   _event, unanswered, turn_closed>>

(* asyncio.gather: it returns when the three tasks returned, and raises as  *)
(* soon as one of them raised or was cancelled (the others keep running).   *)
GatherReady(ts) ==
    \/ \A r \in Roles : ts[r].pc = "done"
    \/ \E r \in Roles : ts[r].pc = "done" /\ ts[r].exit \in {"raised", "cancelled"}

DropDone(ts) ==
    [s \in Sessions |-> [r \in Roles |->
        IF ts[s][r].pc = "done" THEN NoTask ELSE ts[s][r]]]

(* Lines 289-293: gather is over, _active_tasks is emptied and the          *)
(* connection context is left.                                              *)
gather_done ==
    /\ main.pc = "gather"
    /\ ~main.cancel
    /\ Begun(session)
    /\ GatherReady(tasks[session])
    /\ _active_tasks' = {}
    /\ main' = [main EXCEPT !.pc = "closing", !.cancel = FALSE]
    /\ tasks' = DropDone(tasks)
    /\ turn_closed' = {}
    /\ UNCHANGED <<_running, _state, elapsed, config, audio_vars, session,
                   recv, channel, capture, player, _buffer, _event, unanswered>>

(* The connection context is exited: the channel is closed; line 300.       *)
session_closed ==
    /\ main.pc = "closing"
    /\ ~main.cancel
    /\ channel' = "closed"
    /\ _run_session_end
    /\ UNCHANGED <<config, audio_vars, recv, _buffer, _event, unanswered, turn_closed>>

(* ------------------------ VoiceAssistant._send_audio -------------------- *)
SetTask(s, r, v) == [tasks EXCEPT ![s][r] = v]

(* A task of session s ends; how it ended is kept for the gather that       *)
(* awaits it, and dropped with the task when nothing awaits it any more.    *)
Finished(s, how) ==
    IF s = session /\ main.pc = "gather" THEN Done(how) ELSE NoTask

(* The body of the loop of _send_audio (lines 125-141) on the frames the    *)
(* stream yields from buf without suspending: with the assistant stopped or *)
(* LISTENING the first frame ends the loop; in RESPONDING every frame is    *)
(* taken and dropped; else the first frame is sent.                         *)
send_batch_no_gate(buf, st, running) ==
    IF buf = <<>> THEN [act |-> "drained", buf |-> buf]
    ELSE IF ~running \/ st = "LISTENING" THEN [act |-> "break", buf |-> Tail(buf)]
    ELSE [act |-> "send", buf |-> Tail(buf)]

send_batch(buf, st, running) ==
    IF buf = <<>> THEN [act |-> "drained", buf |-> buf]
    ELSE IF ~running \/ st = "LISTENING" THEN [act |-> "break", buf |-> Tail(buf)]
    ELSE IF st = "RESPONDING" THEN [act |-> "drained", buf |-> <<>>]
    ELSE [act |-> "send", buf |-> Tail(buf)]

(* _send_audio from the point where the stream looks for queued frames, up  *)
(* to the next await.                                                       *)
send_continue(s) ==
    LET b == send_batch(_buffer, _state, _running) IN
    /\ _buffer' = b.buf
    /\ IF b.act = "send"
       THEN tasks' = SetTask(s, "send", At("sending"))
       ELSE tasks' = SetTask(s, "send",
                 IF b.act = "drained" /\ capture.running
                 THEN At("wait") ELSE Finished(s, "return"))

(* The task starts: the stream is entered.                                  *)
_send_audio_start(s) ==
    /\ tasks[s]["send"].pc = "new"
    /\ ~tasks[s]["send"].cancel
    /\ tasks' = SetTask(s, "send",
                   IF capture.running THEN At("wait") ELSE Finished(s, "return"))
    /\ UNCHANGED <<_running, _state, elapsed, _active_tasks, config, audio_vars,
                   main, session, recv, channel, capture, player, _buffer, _event,
                   unanswered, turn_closed>>

(* The stream's wait returns.  With the event set, the event is cleared and *)
(* the queued frames are yielded; on its 100 ms timeout with capture        *)
(* stopped the stream ends (with capture running the timeout only repeats   *)
(* the wait).                                                               *)
_send_audio(s) ==
    /\ tasks[s]["send"].pc = "wait"
    /\ Begun(s)
    /\ ~tasks[s]["send"].cancel
    /\ IF _event
       THEN /\ _event' = FALSE
            /\ send_continue(s)
       ELSE /\ ~capture.running
            /\ tasks' = SetTask(s, "send", Finished(s, "return"))
            /\ UNCHANGED <<_buffer, _event>>
    /\ UNCHANGED <<_running, _state, elapsed, _active_tasks, config, audio_vars,
                   main, session, recv, channel, capture, player, unanswered, turn_closed>>

(* session.send returns: the activity clock is set and the stream resumes;  *)
(* or it raises on a failed channel, and the exception leaves the task.     *)
_send_audio_sent(s) ==
    /\ tasks[s]["send"].pc = "sending"
    /\ Begun(s)
    /\ ~tasks[s]["send"].cancel
    /\ IF ChannelOf(s) = "open"
       THEN /\ elapsed' = 0
            /\ send_continue(s)
       ELSE /\ tasks' = SetTask(s, "send", Finished(s, "raised"))
            /\ UNCHANGED <<elapsed, _buffer>>
    /\ UNCHANGED <<_running, _state, _active_tasks, config, audio_vars, main, session, recv,
                   channel, capture, player, _event, unanswered, turn_closed>>

(* ----------------------- VoiceAssistant._receive_audio ------------------ *)
(* The position of the next end_session call of the list after position i,  *)
(* 0 when there is none: only these calls are answered (lines 156-171).     *)
next_end_session(c, i) ==
    IF \E j \in (i + 1)..Len(c) : c[j] = "end_session"
    THEN CHOOSE j \in (i + 1)..Len(c) :
           /\ c[j] = "end_session"
           /\ \A k \in (i + 1)..(j - 1) : c[k] # "end_session"
    ELSE 0

(* The locals of _receive_audio between two messages, which go with the    *)
(* task when it has ended.                                                  *)
Locals(task, esr) ==
    IF Pending(task)
    THEN [end_session_requested |-> esr, response |-> NoResponse, idx |-> 0]
    ELSE NoLocals

(* Line 188: the activity clock after a turn-complete, e being what it was. *)
turn_complete_clock_kept(e) == e

turn_complete_clock(e) == 0

(* Lines 173-188 for the message m of the task of session s, esr being      *)
(* end_session_requested and open the unanswered calls of the turn.  The    *)
(* iterator of session.receive() ends with the turn, so that the loop       *)
(* condition of line 148 is evaluated after a turn-complete.                *)
handle_server_content(s, m, esr, open) ==
    LET next == IF ~m.turn_complete THEN At("receive")
                ELSE IF esr THEN Finished(s, "end_session")
                ELSE IF _running THEN At("receive")
                ELSE Finished(s, "return")
    IN
    /\ tasks' = SetTask(s, "receive", next)
    /\ recv' = [recv EXCEPT ![s] = Locals(next, esr)]
    /\ IF m.turn_complete
       THEN /\ unanswered' = {}
            /\ turn_closed' = turn_closed \cup {c.name : c \in open}
            /\ _state' = IF esr THEN "LISTENING" ELSE "ACTIVATED"
            /\ elapsed' = IF esr THEN elapsed ELSE turn_complete_clock(elapsed)
       ELSE /\ unanswered' = open
            /\ turn_closed' = turn_closed
            /\ _state' = IF m.model_turn THEN "RESPONDING" ELSE _state
            /\ UNCHANGED elapsed

(* Lines 151-152: whether the loop over the messages is left.               *)
receive_break_running_only(running, st) == ~running

receive_break(running, st) == ~running \/ st = "LISTENING"

(* The task starts: the loop condition of line 148.                         *)
_receive_audio_start(s) ==
    /\ tasks[s]["receive"].pc = "new"
    /\ tasks[s]["send"].pc # "new"
    /\ ~tasks[s]["receive"].cancel
    /\ tasks' = SetTask(s, "receive",
                   IF _running /\ _state # "LISTENING"
                   THEN At("receive") ELSE Finished(s, "return"))
    /\ UNCHANGED <<_running, _state, elapsed, _active_tasks, config, audio_vars,
                   main, session, recv, channel, capture, player, _buffer, _event,
                   unanswered, turn_closed>>

(* session.receive() yields the message m (lines 150-188, up to the first   *)
(* await of a tool response).                                               *)
_receive_audio(s, m) ==
    /\ tasks[s]["receive"].pc = "receive"
    /\ Begun(s)
    /\ ~tasks[s]["receive"].cancel
    /\ ChannelOf(s) = "open"
    /\ IF receive_break(_running, _state)
       THEN /\ tasks' = SetTask(s, "receive", Finished(s, "return"))
            /\ recv' = [recv EXCEPT ![s] = NoLocals]
            /\ unanswered' = {}
            /\ UNCHANGED <<_state, elapsed, turn_closed>>
       ELSE LET j == next_end_session(m.calls, 0) IN
            IF j > 0
            THEN /\ recv' = [recv EXCEPT ![s] =
                       [end_session_requested |-> TRUE, response |-> m, idx |-> j]]
                 /\ tasks' = SetTask(s, "receive", At("ack"))
                 /\ unanswered' = unanswered \cup FunctionCalls(m)
                 /\ UNCHANGED <<_state, elapsed, turn_closed>>
            ELSE handle_server_content(s, m, recv[s].end_session_requested,
                                       unanswered \cup FunctionCalls(m))
    /\ UNCHANGED <<_running, _active_tasks, config, audio_vars, main, session, channel,
                   capture, player, _buffer, _event>>

(* The tool response of lines 161-171 for the call at position i.           *)
tool_response_without_id(m, i) == [id |-> 0, name |-> "end_session"]

tool_response(m, i) == [id |-> i, name |-> "end_session"]

(* The send of a tool response returns: the next end_session call of the    *)
(* message is answered, and then the server content is handled; or the send *)
(* raises on a failed channel, which ends the task (lines 193-196).         *)
_receive_audio_acked(s) ==
    /\ tasks[s]["receive"].pc = "ack"
    /\ Begun(s)
    /\ ~tasks[s]["receive"].cancel
    /\ IF ChannelOf(s) = "open"
       THEN LET m == recv[s].response
                j == next_end_session(m.calls, recv[s].idx)
                open == unanswered \ {tool_response(m, recv[s].idx)}
            IN
            IF j > 0
            THEN /\ recv' = [recv EXCEPT ![s].idx = j]
                 /\ unanswered' = open
                 /\ UNCHANGED <<_state, elapsed, tasks, turn_closed>>
            ELSE handle_server_content(s, m, TRUE, open)
       ELSE /\ tasks' = SetTask(s, "receive", Finished(s, "error"))
            /\ recv' = [recv EXCEPT ![s] = NoLocals]
            /\ unanswered' = {}
            /\ UNCHANGED <<_state, elapsed, turn_closed>>
    /\ UNCHANGED <<_running, _active_tasks, config, audio_vars, main, session, channel,
                   capture, player, _buffer, _event>>

(* session.receive() raises on a failed channel: the error is logged and    *)
(* the loop is left (lines 193-196).                                        *)
_receive_audio_error(s) ==
    /\ tasks[s]["receive"].pc = "receive"
    /\ Begun(s)
    /\ ~tasks[s]["receive"].cancel
    /\ ChannelOf(s) \in {"broken", "closed"}
    /\ tasks' = SetTask(s, "receive", Finished(s, "error"))
    /\ recv' = [recv EXCEPT ![s] = NoLocals]
    /\ unanswered' = {}
    /\ UNCHANGED <<_running, _state, elapsed, _active_tasks, config, audio_vars,
                   main, session, channel, capture, player, _buffer, _event,
                   turn_closed>>

(* ----------------------- VoiceAssistant._check_timeout ------------------ *)
_check_timeout_start(s) ==
    /\ tasks[s]["timeout"].pc = "new"
    /\ tasks[s]["receive"].pc # "new"
    /\ ~tasks[s]["timeout"].cancel
    /\ tasks' = SetTask(s, "timeout",
                   IF _running /\ _state # "LISTENING"
                   THEN At("sleep") ELSE Finished(s, "return"))
    /\ UNCHANGED <<_running, _state, elapsed, _active_tasks, config, audio_vars,
                   main, session, recv, channel, capture, player, _buffer, _event,
                   unanswered, turn_closed>>

(* Whether the watchdog finds the session timed out (lines 202-204).        *)
timed_out_early == _state = "ACTIVATED"

timed_out == _state = "ACTIVATED" /\ elapsed >= Timeout

(* asyncio.sleep(1.0) returns: lines 202-207 and the loop condition.        *)
_check_timeout(s) ==
    /\ tasks[s]["timeout"].pc = "sleep"
    /\ Begun(s)
    /\ ~tasks[s]["timeout"].cancel
    /\ IF timed_out
       THEN /\ _state' = "LISTENING"
            /\ tasks' = SetTask(s, "timeout", Finished(s, "timeout"))
       ELSE /\ _state' = _state
            /\ tasks' = SetTask(s, "timeout",
                   IF _running /\ _state # "LISTENING"
                   THEN At("sleep") ELSE Finished(s, "return"))
    /\ UNCHANGED <<_running, elapsed, _active_tasks, config, audio_vars, main,
                   session, recv, channel, capture, player, _buffer, _event, unanswered, turn_closed>>

(* A cancelled task is resumed with CancelledError, which leaves it         *)
(* (_receive_audio re-raises it, lines 190-192).                            *)
task_cancelled(s, r) ==
    /\ Pending(tasks[s][r])
    /\ tasks[s][r].cancel
    /\ tasks' = SetTask(s, r, Finished(s, "cancelled"))
    /\ recv' = IF r = "receive" THEN [recv EXCEPT ![s] = NoLocals] ELSE recv
    /\ unanswered' = IF r = "receive" THEN {} ELSE unanswered
    /\ UNCHANGED <<_running, _state, elapsed, _active_tasks, config, audio_vars,
                   main, session, channel, capture, player, _buffer, _event,
                   turn_closed>>

(* ------------------------------ environment ---------------------------- *)
(* AudioCapture._audio_callback, on the thread of the audio device.         *)
_audio_callback ==
    /\ capture.running
    /\ _buffer' = Append_maxlen(_buffer, IF Playing THEN "playback" ELSE "quiet")
    /\ _event' = TRUE
    /\ UNCHANGED <<_running, _state, elapsed, _active_tasks, config, audio_vars,
                   main, session, tasks, recv, channel, capture, player, unanswered, turn_closed>>

(* time.monotonic() advances; only a watchdog reads the clock, and beyond   *)
(* Timeout it sees no difference.                                           *)
tick ==
    /\ \E s \in Sessions : Pending(tasks[s]["timeout"])
    /\ elapsed < Timeout
    /\ elapsed' = elapsed + 1
    /\ UNCHANGED <<_running, _state, _active_tasks, config, audio_vars,
                   main, session, tasks, recv, channel, capture, player, _buffer,
                   _event, unanswered, turn_closed>>

(* The backend channel fails.                                               *)
channel_failure ==
    /\ channel = "open"
    /\ channel' = "broken"
    /\ UNCHANGED <<_running, _state, elapsed, _active_tasks, config, audio_vars,
                   main, session, tasks, recv, capture, player, _buffer, _event,
                   unanswered, turn_closed>>

(* shutdown() is called from outside run(), between two steps of the loop.  *)
shutdown_called ==
    /\ shutdown(_state)
    /\ UNCHANGED <<elapsed, config, audio_vars, main, session, recv, channel,
                   _buffer, _event, unanswered, turn_closed>>

(* __main__.handle_signal: shutdown(), then every task of the loop is       *)
(* cancelled, run() included.                                               *)
AllTasks == Sessions \X Roles

handle_signal ==
    /\ main.pc \notin {"start", "returned"}
    /\ shutdown_fields(_state)
    /\ tasks' = CancelTasks(shutdown_tasks, AllTasks)
    /\ main' = [main EXCEPT !.cancel = TRUE]
    /\ UNCHANGED <<elapsed, config, audio_vars, session, recv, channel, _buffer,
                   _event, unanswered, turn_closed>>

(* run() is resumed with CancelledError.  In _listen_for_wakeword it        *)
(* reaches the handler of run() (lines 334-339); in _run_session it is      *)
(* caught (lines 290-296) after the connection context, if entered, is      *)
(* left; a cancelled gather raises once one of its cancelled tasks is done. *)
run_cancelled ==
    /\ main.cancel
    /\ main.pc \in {"listen", "connect", "greet_send", "greet_recv", "gather", "closing"}
    /\ main.pc = "gather" => Begun(session) /\ GatherReady(tasks[session])
    /\ IF main.pc = "listen"
       THEN run_finally(_state) /\ UNCHANGED channel
       ELSE IF main.pc = "connect"
       THEN _run_session_end /\ UNCHANGED channel
       ELSE IF main.pc = "closing"
       THEN _run_session_end /\ channel' = "closed"
       ELSE /\ main' = [main EXCEPT !.pc = "closing", !.cancel = FALSE]
            /\ tasks' = IF main.pc = "gather" THEN DropDone(tasks) ELSE tasks
            /\ _active_tasks' = IF main.pc = "gather" THEN {} ELSE _active_tasks
            /\ UNCHANGED <<_running, _state, elapsed, session, channel,
                           capture, player>>
    /\ turn_closed' = IF main.pc = "gather" THEN {} ELSE turn_closed
    /\ UNCHANGED <<config, audio_vars, recv, _buffer, _event, unanswered>>

(* ---------------------------- specification ----------------------------- *)
(* The steps the program takes with no new input from the backend, the      *)
(* audio device or a caller: a coroutine resumed by a timer, by the end of  *)
(* a send or of the connection attempt, by a set event, by an error of the  *)
(* channel or by its cancellation.                                          *)
Program ==
    \/ run
    \/ connect_ok
    \/ connect_error
    \/ _listen_for_wakeword
    \/ greeting_sent
    \/ greeting_error
    \/ gather_done
    \/ session_closed
    \/ run_cancelled
    \/ \E s \in Sessions : _send_audio_start(s)
    \/ \E s \in Sessions : _send_audio(s)
    \/ \E s \in Sessions : _send_audio_sent(s)
    \/ \E s \in Sessions : _receive_audio_start(s)
    \/ \E s \in Sessions : _receive_audio_acked(s)
    \/ \E s \in Sessions : _receive_audio_error(s)
    \/ \E s \in Sessions : _check_timeout_start(s)
    \/ \E s \in Sessions : _check_timeout(s)
    \/ \E s \in Sessions, r \in Roles : task_cancelled(s, r)

(* The steps of the environment: a message of the backend, a frame of the   *)
(* audio device, the clock, a failure of the channel and the callers of     *)
(* shutdown().                                                              *)
Environment ==
    \/ \E m \in Responses : greeting_received(m)
    \/ \E s \in Sessions, m \in Responses : _receive_audio(s, m)
    \/ _audio_callback
    \/ tick
    \/ channel_failure
    \/ shutdown_called
    \/ handle_signal

Next == Program \/ Environment

Spec == Init /\ [][Next]_vars

(* ------------------- AudioCapture, one thread step at a time ------------ *)
(* The capture buffer seen from its two sides: the device thread runs       *)
(* _audio_callback, the event loop runs the generator stream() and stop().  *)
(* The frames are numbered in the order the device delivers them.  Time is  *)
(* counted in ticks; the timeout of the wait of line 297 is PollInterval    *)
(* ticks.                                                                   *)
PollInterval == 2
MaxFrames == 4

Min(a, b) == IF a < b THEN a ELSE b

(* AcousticEchoCanceller.process for a capture whose canceller was fed no   *)
(* playback: the reference queue is empty and line 117 returns the frame.   *)
process_unfed(mic_data) == mic_data

(* The state after construction, the assistant not started.                 *)
InitCapture ==
    /\ _running = FALSE
    /\ _state = "LISTENING"
    /\ elapsed = 0
    /\ _active_tasks = {}
    /\ config = [wake_enabled |-> TRUE]
    /\ main = [pc |-> "start", cancel |-> FALSE]
    /\ session = 0
    /\ tasks = [s \in Sessions |-> [r \in Roles |-> NoTask]]
    /\ recv = [s \in Sessions |-> NoLocals]
    /\ channel = "none"
    /\ capture = Stopped
    /\ player = Stopped
    /\ _buffer = <<>>
    /\ _event = FALSE
    /\ unanswered = {}
    /\ turn_closed = {}
    /\ echo_canceller \in BOOLEAN
    /\ _lock = "none"
    /\ callback = NoCall
    /\ gen = NoGen
    /\ device = NoDevice
    /\ aec = NewAec
    /\ effects = NewEffects
    /\ coop = NoCoop
    /\ wiring = [echo_canceller |-> FALSE, effects_processor |-> TRUE]

assistant_vars == <<_running, _state, elapsed, _active_tasks, config, main,
                    session, tasks, recv, channel, player, unanswered,
                    turn_closed>>
aec_vars == <<aec, effects, coop, wiring>>

(* AudioCapture.start().                                                    *)
start ==
    /\ ~capture.running
    /\ ~device.stopped
    /\ capture' = Started
    /\ UNCHANGED <<assistant_vars, aec_vars, _buffer, _event, echo_canceller, _lock,
                   callback, gen, device>>

(* AcousticEchoCanceller.shutdown(), lines 191-193.                         *)
aec_shutdown(a) == [a EXCEPT !._shutdown = TRUE]

(* AudioCapture.stop().                                                     *)
stop ==
    /\ capture.running
    /\ capture' = Stopped
    /\ device' = [device EXCEPT !.stopped = TRUE, !.since_stop = 0]
    /\ aec' = IF echo_canceller THEN aec_shutdown(aec) ELSE aec
    /\ UNCHANGED <<assistant_vars, effects, coop, wiring, _buffer, _event,
                   echo_canceller, _lock, callback, gen>>

(* The device calls _audio_callback with its next frame: the test of        *)
(* line 240 is made.                                                        *)
callback_enter ==
    /\ callback.pc = "idle"
    /\ capture.running
    /\ device.calls < MaxFrames
    /\ device' = [device EXCEPT !.calls = @ + 1]
    /\ callback' = [pc |-> IF echo_canceller THEN "process" ELSE "append",
                    in_data |-> device.calls + 1]
    /\ UNCHANGED <<assistant_vars, aec_vars, capture, _buffer, _event, echo_canceller,
                   _lock, gen>>

(* Lines 242-243: the frame goes through the echo canceller.                *)
callback_process ==
    /\ callback.pc = "process"
    /\ callback' = [pc |-> "append", in_data |-> process_unfed(callback.in_data)]
    /\ UNCHANGED <<assistant_vars, aec_vars, capture, _buffer, _event, echo_canceller,
                   _lock, gen, device>>

(* Lines 244-245: the frame is appended under the lock, which the thread    *)
(* gets once the generator does not hold it.                                *)
callback_append ==
    /\ callback.pc = "append"
    /\ _lock = "none"
    /\ _buffer' = Append_maxlen(_buffer, callback.in_data)
    /\ callback' = [callback EXCEPT !.pc = "set"]
    /\ UNCHANGED <<assistant_vars, aec_vars, capture, _event, echo_canceller, _lock,
                   gen, device>>

callback_set_skipped ==
    /\ callback.pc = "set"
    /\ callback' = NoCall
    /\ UNCHANGED <<assistant_vars, aec_vars, capture, _buffer, _event,
                   echo_canceller, _lock, gen, device>>

(* Lines 247-251: the event is set and the callback returns.                *)
callback_set ==
    /\ callback.pc = "set"
    /\ _event' = TRUE
    /\ callback' = NoCall
    /\ UNCHANGED <<assistant_vars, aec_vars, capture, _buffer, echo_canceller, _lock,
                   gen, device>>

(* The timeout of asyncio.wait_for at line 297, in ticks.                   *)
wait_forever == PollInterval + 2
wait_timeout == PollInterval

(* The test of the outer loop, line 294, and what follows it: the wait of   *)
(* line 297, or the end of the generator.                                   *)
stream_loop(g, running) ==
    IF running THEN [g EXCEPT !.pc = "wait", !.waited = 0]
    ELSE [g EXCEPT !.pc = "ended"]

(* A consumer calls stream() and asks for its first frame.                  *)
stream_call ==
    /\ gen.pc \in {"none", "ended"}
    /\ gen' = stream_loop([gen EXCEPT !.batch = 0, !.queued = 0], capture.running)
    /\ UNCHANGED <<assistant_vars, aec_vars, capture, _buffer, _event, echo_canceller,
                   _lock, callback, device>>

(* The event is set: the wait of line 297 returns and line 298 clears the   *)
(* event.  batch and queued record what was queued at that time.            *)
stream_woken ==
    /\ gen.pc = "wait"
    /\ _event
    /\ _event' = FALSE
    /\ gen' = [gen EXCEPT !.pc = "pop",
                          !.batch = Len(_buffer),
                          !.queued = IF _buffer = <<>> THEN 0
                                     ELSE _buffer[Len(_buffer)]]
    /\ UNCHANGED <<assistant_vars, aec_vars, capture, _buffer, echo_canceller, _lock,
                   callback, device>>

(* The wait times out, lines 299-300, and the loop test is made again.      *)
stream_timeout ==
    /\ gen.pc = "wait"
    /\ ~_event
    /\ gen.waited >= wait_timeout
    /\ gen' = stream_loop(gen, capture.running)
    /\ UNCHANGED <<assistant_vars, aec_vars, capture, _buffer, _event, echo_canceller,
                   _lock, callback, device>>

(* Line 304: the generator takes the lock.                                  *)
stream_acquire ==
    /\ gen.pc = "pop"
    /\ _lock = "none"
    /\ _lock' = "stream"
    /\ gen' = [gen EXCEPT !.pc = "locked"]
    /\ UNCHANGED <<assistant_vars, aec_vars, capture, _buffer, _event, echo_canceller,
                   callback, device>>

(* deque.pop() in place of popleft().                                       *)
pop_right(buf) ==
    [data |-> buf[Len(buf)], rest |-> SubSeq(buf, 1, Len(buf) - 1)]
(* deque.popleft(), line 307.                                               *)
popleft(buf) == [data |-> Head(buf), rest |-> Tail(buf)]

(* Who holds the lock once the with block of lines 304-307 is left.         *)
with_exit_held(holder) == holder
with_exit(holder) == "none"

(* Lines 305-308 under the lock: an empty buffer ends the inner loop, else  *)
(* one frame is popped; the lock is released and the frame is yielded.      *)
stream_pop ==
    /\ gen.pc = "locked"
    /\ _lock' = with_exit(_lock)
    /\ IF _buffer = <<>>
       THEN /\ gen' = stream_loop(gen, capture.running)
            /\ UNCHANGED _buffer
       ELSE /\ gen' = [gen EXCEPT !.pc = "yield", !.data = popleft(_buffer).data]
            /\ _buffer' = popleft(_buffer).rest
    /\ UNCHANGED <<assistant_vars, aec_vars, capture, _event, echo_canceller, callback,
                   device>>

(* The consumer asks for the next frame: the generator resumes after the    *)
(* yield of line 308.                                                       *)
stream_next ==
    /\ gen.pc = "yield"
    /\ gen' = [gen EXCEPT !.pc = "pop"]
    /\ UNCHANGED <<assistant_vars, aec_vars, capture, _buffer, _event, echo_canceller,
                   _lock, callback, device>>

(* The consumer leaves its loop (break or return in the body of its async   *)
(* for): the generator is never resumed.  left records that a consumer has  *)
(* not kept iterating.                                                      *)
stream_break ==
    /\ gen.pc = "yield"
    /\ gen' = [gen EXCEPT !.pc = "ended", !.left = TRUE]
    /\ UNCHANGED <<assistant_vars, aec_vars, capture, _buffer, _event, echo_canceller,
                   _lock, callback, device>>

(* One tick of time passes.  It cannot pass while the wait of line 297 has  *)
(* reached its timeout: wait_for returns then.                              *)
poll_tick ==
    /\ \/ gen.pc = "wait"
       \/ device.stopped /\ device.since_stop <= PollInterval
    /\ gen.pc = "wait" => gen.waited < wait_timeout
    /\ gen' = IF gen.pc = "wait"
              THEN [gen EXCEPT !.waited = Min(@ + 1, PollInterval + 1)]
              ELSE gen
    /\ device' = IF device.stopped
                 THEN [device EXCEPT !.since_stop = Min(@ + 1, PollInterval + 1)]
                 ELSE device
    /\ UNCHANGED <<assistant_vars, aec_vars, capture, _buffer, _event, echo_canceller,
                   _lock, callback>>

NextCapture ==
    \/ start
    \/ stop
    \/ callback_enter
    \/ callback_process
    \/ callback_append
    \/ callback_set
    \/ stream_call
    \/ stream_woken
    \/ stream_timeout
    \/ stream_acquire
    \/ stream_pop
    \/ stream_next
    \/ stream_break
    \/ poll_tick

SpecCapture == InitCapture /\ [][NextCapture]_vars


(* -------- AcousticEchoCanceller, GLaDOSEffectsProcessor, play_sync ------ *)
(* The echo canceller and the effects processor with their callers: the     *)
(* device thread, which calls process() from _audio_callback when the       *)
(* capture was constructed with a canceller, and cooperative code, which    *)
(* calls play_sync(), clear() and reset().  A sample is a 16-bit integer;   *)
(* its float value s / 32768 is represented by the numerator s.  A frame    *)
(* is told by whether it has the configured size and by its samples, all    *)
(* equal.  The reference queue has QueueMaxLen places (50 in the code) and  *)
(* a block has FrameSize samples.                                           *)
QueueMaxLen == 2
FrameSize == 2
MaxBlocks == 3

Samples == {-32768, 32767}
MicData == [full : BOOLEAN, sample : Samples]
ChunkSizes == {1, FrameSize + 1}
(* What the arithmetic of lines 123-157 gives for a frame.                  *)
FilterOutputs == {"finite", "nonfinite"}

(* np.frombuffer(...).astype(np.float64) / 32768.0, line 110.               *)
to_float(s) == s
(* np.clip(output * 32768, -32768, 32767).astype(np.int16), line 180.       *)
from_float(v) == IF v < -32768 THEN -32768 ELSE IF v > 32767 THEN 32767 ELSE v

(* What a call gives that returns no frame.                                 *)
Nothing == [full |-> FALSE, sample |-> 0]

(* The holder of the lock of an object, "none" for an object without lock.  *)
lock_holder(obj) == IF "_lock" \in DOMAIN obj THEN obj._lock ELSE "none"

(* The test of line 106 without its comparison of the frame size.           *)
process_test_any_size(a, mic_data) == ~a._shutdown
(* The test of line 106: process() goes on to the filter.                   *)
process_test(a, mic_data) == mic_data.full /\ ~a._shutdown

(* A canceller that gates the microphone: silence when nothing is queued.   *)
process_locked_muted(a, mic_data, y) ==
    [aec |-> a, out |-> [mic_data EXCEPT !.sample = 0], status |-> "returned"]
(* Lines 114-181 of process(), under the lock: pass-through when no         *)
(* reference block is queued; else the oldest block is popped and line 121  *)
(* reads _fft_size, which raises AttributeError while the attributes of the *)
(* filter are unset; with them, the filter adapts, and the output is the    *)
(* microphone frame when the result y is not finite, the error signal       *)
(* (silence here) when it is.                                               *)
process_locked(a, mic_data, y) ==
    IF a._playback_queue = <<>>
    THEN [aec |-> a, out |-> mic_data, status |-> "returned"]
    ELSE IF a.filter = "unset"
    THEN [aec |-> [a EXCEPT !._playback_queue = Tail(@)],
          out |-> Nothing, status |-> "raised"]
    ELSE [aec |-> [a EXCEPT !._playback_queue = Tail(@), !.filter = "adapted"],
          out |-> [mic_data EXCEPT !.sample =
                      IF y = "nonfinite" THEN from_float(to_float(@)) ELSE 0],
          status |-> "returned"]

queue_append_unbounded(q, b) == Append(q, b)

(* deque(maxlen=50).append of line 70 and line 93: a full queue drops its   *)
(* oldest block.                                                            *)
queue_append(q, b) ==
    IF Len(q) < QueueMaxLen THEN Append(q, b) ELSE Append(Tail(q), b)

(* feed_playback under the lock, lines 87-93, for n new samples.            *)
RECURSIVE enqueue(_, _)
enqueue(a, n) ==
    IF n < FrameSize THEN [a EXCEPT !._playback_buffer = n]
    ELSE enqueue([a EXCEPT
                    !.made = @ + 1,
                    !._playback_queue = queue_append(@, a.made + 1)],
                 n - FrameSize)

InitAec ==
    /\ _running = FALSE
    /\ _state = "LISTENING"
    /\ elapsed = 0
    /\ _active_tasks = {}
    /\ config = [wake_enabled |-> TRUE]
    /\ main = [pc |-> "start", cancel |-> FALSE]
    /\ session = 0
    /\ tasks = [s \in Sessions |-> [r \in Roles |-> NoTask]]
    /\ recv = [s \in Sessions |-> NoLocals]
    /\ channel = "none"
    /\ capture = Stopped
    /\ player = Stopped
    /\ _buffer = <<>>
    /\ _event = FALSE
    /\ unanswered = {}
    /\ turn_closed = {}
    /\ echo_canceller \in BOOLEAN
    /\ _lock = "none"
    /\ callback = NoCall
    /\ gen = NoGen
    /\ device = NoDevice
    /\ aec = NewAec
    /\ effects = NewEffects
    /\ coop = NoCoop
    /\ wiring \in [echo_canceller : BOOLEAN, effects_processor : BOOLEAN]

aec_frame == <<_running, _state, elapsed, _active_tasks, config, main,
               session, tasks, recv, channel, unanswered, turn_closed,
               _buffer, _event, echo_canceller, _lock, gen, device, wiring>>

(* AudioPlayer.start().                                                     *)
player_start ==
    /\ player = Stopped
    /\ coop.pc = "idle"
    /\ player' = Started
    /\ UNCHANGED <<aec_frame, capture, callback, aec, effects, coop>>

(* AudioPlayer.stop().                                                      *)
player_stop ==
    /\ player.running
    /\ coop.pc = "idle"
    /\ player' = Stopped
    /\ UNCHANGED <<aec_frame, capture, callback, aec, effects, coop>>

(* The device thread, in _audio_callback, passes the test of line 240 and   *)
(* calls process() with its frame at line 243.                              *)
process_call(mic_data) ==
    /\ callback.pc = "idle"
    /\ capture.running
    /\ echo_canceller
    /\ callback' = [pc |-> "test", in_data |-> mic_data]
    /\ UNCHANGED <<aec_frame, capture, player, aec, effects, coop>>

(* The test of line 106 returns the frame or goes on to the lock.           *)
process_enter ==
    /\ callback.pc = "test"
    /\ callback' = IF process_test(aec, callback.in_data)
                   THEN [callback EXCEPT !.pc = "lock"]
                   ELSE [pc |-> "idle", in_data |-> callback.in_data,
                         out |-> callback.in_data, status |-> "returned",
                         y |-> "-"]
    /\ UNCHANGED <<aec_frame, capture, player, aec, effects, coop>>

(* Line 114: the thread takes the lock of the canceller.                    *)
process_acquire ==
    /\ callback.pc = "lock"
    /\ aec._lock = "none"
    /\ aec' = [aec EXCEPT !._lock = "callback"]
    /\ callback' = [callback EXCEPT !.pc = "processing"]
    /\ UNCHANGED <<aec_frame, capture, player, effects, coop>>

(* Lines 116-181: the body of process(); the lock is released when the      *)
(* with block is left, by a return or by an exception.                      *)
process_return(y) ==
    /\ callback.pc = "processing"
    /\ LET r == process_locked(aec, callback.in_data, y) IN
        /\ aec' = [r.aec EXCEPT !._lock = "none"]
        /\ callback' = [pc |-> "idle", in_data |-> callback.in_data,
                        out |-> r.out, status |-> r.status,
                        y |-> IF aec._playback_queue = <<>> THEN "-" ELSE y]
    /\ UNCHANGED <<aec_frame, capture, player, effects, coop>>

(* Where play_sync goes after resampling and after the effects.             *)
after_resample == IF wiring.effects_processor THEN "effects"
                  ELSE IF wiring.echo_canceller THEN "feed" ELSE "write"
after_effects_unfed == "write"

after_effects == IF wiring.echo_canceller THEN "feed" ELSE "write"

(* play_sync(data), lines 387-395: nothing for a player that is not         *)
(* started; else the chunk is resampled and effects.process() is entered.   *)
play_sync(n) ==
    /\ coop.pc = "idle"
    /\ aec.made < MaxBlocks
    /\ coop' = IF player.stream /\ player.running
               THEN [pc |-> after_resample, data |-> n]
               ELSE [pc |-> "idle", data |-> 0, status |-> "not started"]
    /\ UNCHANGED <<aec_frame, capture, player, callback, aec, effects>>

(* GLaDOSEffectsProcessor.process, lines 169-199, returns: the chorus       *)
(* buffer and the resonance registers now hold the history of the chunk.    *)
effects_process ==
    /\ coop.pc = "effects"
    /\ effects' = [effects EXCEPT !.clean = FALSE]
    /\ coop' = [coop EXCEPT !.pc = after_effects]
    /\ UNCHANGED <<aec_frame, capture, player, callback, aec>>

(* feed_playback, lines 83-85: the lock of the canceller is taken.          *)
feed_acquire ==
    /\ coop.pc = "feed"
    /\ aec._lock = "none"
    /\ aec' = [aec EXCEPT !._lock = "playback"]
    /\ coop' = [coop EXCEPT !.pc = "feeding"]
    /\ UNCHANGED <<aec_frame, capture, player, callback, effects>>

(* feed_playback, lines 87-93, and the release of the lock.                 *)
feed_playback ==
    /\ coop.pc = "feeding"
    /\ aec' = [enqueue(aec, aec._playback_buffer + coop.data) EXCEPT !._lock = "none"]
    /\ coop' = [coop EXCEPT !.pc = "write"]
    /\ UNCHANGED <<aec_frame, capture, player, callback, effects>>

(* play_sync, line 399: the chunk is written to the device.                 *)
play_sync_write ==
    /\ coop.pc = "write"
    /\ coop' = NoCoop
    /\ UNCHANGED <<aec_frame, capture, player, callback, aec, effects>>

(* clear(), line 185: the lock of the canceller is taken.                   *)
clear_acquire ==
    /\ coop.pc = "idle"
    /\ wiring.echo_canceller \/ echo_canceller
    /\ aec._lock = "none"
    /\ aec' = [aec EXCEPT !._lock = "reset"]
    /\ coop' = [pc |-> "clearing", data |-> 0]
    /\ UNCHANGED <<aec_frame, capture, player, callback, effects>>

(* clear() under the lock, lines 186-189: the queue is emptied; line 187    *)
(* then reads _ref_buffer, which raises AttributeError while the attributes *)
(* of the filter are unset; with them, the history window, the weights and  *)
(* the power estimate are reset.  The accumulation buffer is not touched.   *)
clear_locked(a) ==
    IF a.filter = "unset"
    THEN [aec |-> [a EXCEPT !._playback_queue = <<>>], status |-> "raised"]
    ELSE [aec |-> [a EXCEPT !._playback_queue = <<>>, !.filter = "zero"],
          status |-> "returned"]

(* clear(), lines 186-189, and the release of the lock.                     *)
clear ==
    /\ coop.pc = "clearing"
    /\ aec' = [clear_locked(aec).aec EXCEPT !._lock = "none"]
    /\ coop' = [pc |-> "idle", data |-> 0, status |-> clear_locked(aec).status]
    /\ UNCHANGED <<aec_frame, capture, player, callback, effects>>

(* GLaDOSEffectsProcessor.reset(), lines 201-207.                           *)
reset ==
    /\ coop.pc = "idle"
    /\ wiring.effects_processor
    /\ ~effects.clean
    /\ effects' = [effects EXCEPT !.clean = TRUE]
    /\ UNCHANGED <<aec_frame, capture, player, callback, aec, coop>>

NextAec ==
    \/ start
    \/ stop
    \/ player_start
    \/ player_stop
    \/ \E m \in MicData : process_call(m)
    \/ process_enter
    \/ process_acquire
    \/ \E y \in FilterOutputs : process_return(y)
    \/ \E n \in ChunkSizes : play_sync(n)
    \/ effects_process
    \/ feed_acquire
    \/ feed_playback
    \/ play_sync_write
    \/ clear_acquire
    \/ clear
    \/ reset

SpecAec == InitAec /\ [][NextAec]_vars


(* ----------------- the sessions of VoiceAssistant and the player -------- *)
(* The player and the effects processor as VoiceAssistant uses them: a      *)
(* player without canceller (assistant.py, line 104), started by run();     *)
(* sessions one after the other, as the loop of run() starts them when the  *)
(* wake word is enabled; play_sync called for the audio of the greeting     *)
(* and of the model turns of a session (lines 179 and 273).  No line of     *)
(* assistant.py calls GLaDOSEffectsProcessor.reset().                       *)
MaxRuns == 3

InitSessions ==
    /\ InitAec
    /\ ~echo_canceller
    /\ ~wiring.echo_canceller

sessions_frame == <<_running, elapsed, _active_tasks, config, tasks,
                    recv, channel, unanswered, turn_closed, _buffer, _event,
                    echo_canceller, _lock, gen, device, wiring, capture,
                    callback, aec, player, coop>>

(* What the first lines of _run_session (234-235) do to the effects.        *)
session_effects(e) == e

(* _run_session begins, lines 232-265, and waits for the greeting.          *)
session_start ==
    /\ _state = "LISTENING"
    /\ player.running
    /\ coop.pc = "idle"
    /\ session < MaxRuns
    /\ session' = session + 1
    /\ _state' = "ACTIVATED"
    /\ main' = [pc |-> "greet_recv", cancel |-> FALSE]
    /\ effects' = session_effects(effects)
    /\ UNCHANGED sessions_frame

(* A chunk of the greeting (line 273) or of a model turn (line 179) is      *)
(* played.                                                                  *)
session_play(n) ==
    /\ main.pc = "greet_recv" \/ _state = "RESPONDING"
    /\ play_sync(n)

(* The greeting is complete, lines 274-289: the tasks of the session run.   *)
greeting_complete ==
    /\ main.pc = "greet_recv"
    /\ coop.pc = "idle"
    /\ main' = [pc |-> "gather", cancel |-> FALSE]
    /\ UNCHANGED <<sessions_frame, _state, session, effects>>

(* A message with a model turn arrives, line 176.                           *)
model_turn ==
    /\ main.pc = "gather"
    /\ _state = "ACTIVATED"
    /\ _state' = "RESPONDING"
    /\ UNCHANGED <<sessions_frame, main, session, effects>>

(* The turn is complete, line 187.                                          *)
turn_complete ==
    /\ main.pc = "gather"
    /\ _state = "RESPONDING"
    /\ coop.pc = "idle"
    /\ _state' = "ACTIVATED"
    /\ UNCHANGED <<sessions_frame, main, session, effects>>

(* _run_session ends, line 300, and run() listens again.                    *)
session_end ==
    /\ main.pc = "gather"
    /\ coop.pc = "idle"
    /\ _state' = "LISTENING"
    /\ main' = [pc |-> "listen", cancel |-> FALSE]
    /\ UNCHANGED <<sessions_frame, session, effects>>

NextSessions ==
    \/ player_start
    \/ player_stop
    \/ session_start
    \/ \E n \in ChunkSizes : session_play(n)
    \/ effects_process
    \/ play_sync_write
    \/ greeting_complete
    \/ model_turn
    \/ turn_complete
    \/ session_end

SpecSessions == InitSessions /\ [][NextSessions]_vars


(* --------------- the device handles of the two audio ports -------------- *)
(* AudioCapture and AudioPlayer with their handles: _pyaudio and _stream    *)
(* are present or None, and the audio system counts the PyAudio instances   *)
(* (pa_open) and the streams (streams_open) the port has opened and not     *)
(* released.  PyAudio() and open() may raise.  started tells that a call of *)
(* start() has returned since the last stop(), raised that the last call    *)
(* has raised.                                                              *)
MaxHandles == 2

NewPort == [running |-> FALSE, stream |-> FALSE, pyaudio |-> FALSE,
            pa_open |-> 0, streams_open |-> 0,
            started |-> FALSE, raised |-> FALSE]

(* AudioCapture.start(), lines 255-267: _running is set before open().      *)
capture_start(p, pa_ok, open_ok) ==
    IF ~pa_ok THEN [p EXCEPT !.raised = TRUE]
    ELSE IF ~open_ok
    THEN [p EXCEPT !.pyaudio = TRUE, !.pa_open = @ + 1, !.running = TRUE,
                   !.raised = TRUE]
    ELSE [p EXCEPT !.pyaudio = TRUE, !.pa_open = @ + 1, !.running = TRUE,
                   !.stream = TRUE, !.streams_open = @ + 1,
                   !.started = TRUE, !.raised = FALSE]

(* AudioPlayer.start(), lines 329-339: _running is set after open().        *)
player_open(p, pa_ok, open_ok) ==
    IF ~pa_ok THEN [p EXCEPT !.raised = TRUE]
    ELSE IF ~open_ok
    THEN [p EXCEPT !.pyaudio = TRUE, !.pa_open = @ + 1, !.raised = TRUE]
    ELSE [p EXCEPT !.pyaudio = TRUE, !.pa_open = @ + 1,
                   !.stream = TRUE, !.streams_open = @ + 1, !.running = TRUE,
                   !.started = TRUE, !.raised = FALSE]

(* AudioCapture.stop(), lines 271-290, and AudioPlayer.stop(), lines        *)
(* 343-358: the stream the port refers to is closed and its PyAudio         *)
(* instance is terminated.                                                  *)
port_stop(p) ==
    [running |-> FALSE, stream |-> FALSE, pyaudio |-> FALSE,
     pa_open |-> IF p.pyaudio THEN p.pa_open - 1 ELSE p.pa_open,
     streams_open |-> IF p.stream THEN p.streams_open - 1 ELSE p.streams_open,
     started |-> FALSE, raised |-> FALSE]

InitPorts ==
    /\ _running = FALSE
    /\ _state = "LISTENING"
    /\ elapsed = 0
    /\ _active_tasks = {}
    /\ config = [wake_enabled |-> TRUE]
    /\ main = [pc |-> "start", cancel |-> FALSE]
    /\ session = 0
    /\ tasks = [s \in Sessions |-> [r \in Roles |-> NoTask]]
    /\ recv = [s \in Sessions |-> NoLocals]
    /\ channel = "none"
    /\ capture = NewPort
    /\ player = NewPort
    /\ _buffer = <<>>
    /\ _event = FALSE
    /\ unanswered = {}
    /\ turn_closed = {}
    /\ echo_canceller = FALSE
    /\ _lock = "none"
    /\ callback = NoCall
    /\ gen = NoGen
    /\ device = NoDevice
    /\ aec = NewAec
    /\ effects = NewEffects
    /\ coop = NoCoop
    /\ wiring = [echo_canceller |-> FALSE, effects_processor |-> TRUE]

ports_frame == <<_state, elapsed, _active_tasks, config, session, tasks,
                 recv, channel, unanswered, turn_closed, _buffer, _event,
                 audio_vars>>

(* A caller calls start() of the capture.                                   *)
capture_started(pa_ok, open_ok) ==
    /\ capture.pa_open < MaxHandles
    /\ capture' = capture_start(capture, pa_ok, open_ok)
    /\ UNCHANGED <<ports_frame, _running, main, player>>

(* A caller calls stop() of the capture.                                    *)
capture_stopped ==
    /\ capture' = port_stop(capture)
    /\ UNCHANGED <<ports_frame, _running, main, player>>

(* A caller calls start() of the player.                                    *)
player_started(pa_ok, open_ok) ==
    /\ player.pa_open < MaxHandles
    /\ player' = player_open(player, pa_ok, open_ok)
    /\ UNCHANGED <<ports_frame, _running, main, capture>>

(* A caller calls stop() of the player.                                     *)
player_stopped ==
    /\ player' = port_stop(player)
    /\ UNCHANGED <<ports_frame, _running, main, capture>>

(* run(), lines 315-317 of assistant.py, which are outside its try block:   *)
(* an exception of capture.start() or of player.start() leaves run() with   *)
(* no call of shutdown(); else run() enters its loop.                       *)
run_ports(c_pa, c_open, p_pa, p_open) ==
    /\ main.pc = "start"
    /\ capture = NewPort
    /\ player = NewPort
    /\ _running' = TRUE
    /\ capture' = capture_start(capture, c_pa, c_open)
    /\ IF c_pa /\ c_open
       THEN /\ player' = player_open(player, p_pa, p_open)
            /\ main' = [main EXCEPT !.pc = IF p_pa /\ p_open THEN "listen"
                                           ELSE "raised"]
       ELSE /\ player' = player
            /\ main' = [main EXCEPT !.pc = "raised"]
    /\ UNCHANGED ports_frame

NextPorts ==
    \/ \E pa_ok, open_ok \in BOOLEAN : capture_started(pa_ok, open_ok)
    \/ capture_stopped
    \/ \E pa_ok, open_ok \in BOOLEAN : player_started(pa_ok, open_ok)
    \/ player_stopped
    \/ \E c_pa, c_open, p_pa, p_open \in BOOLEAN : run_ports(c_pa, c_open, p_pa, p_open)

SpecPorts == InitPorts /\ [][NextPorts]_vars


(* ----------------------------- resample_linear -------------------------- *)
(* The data are byte sequences; struct.unpack reads them as little-endian   *)
(* signed 16-bit samples and struct.pack writes samples back.  The rates of *)
(* the model are small numbers.  The code computes the ratio, the length    *)
(* and the source positions in floating point: where the exact result is a  *)
(* whole number the computed one may lie just below it, depending on the    *)
(* rates (44100 to 48000: 480 / ratio = 440.99999999999994; 5 to 7:         *)
(* 45 * ratio = 62.99999999999999), and int() then yields one less.  The    *)
(* rounding is an input of the function.                                    *)
MaxBytes == 4
MaxRate == 3

ByteValues == {0, 127, 128, 255}
Rates == 1..MaxRate
Roundings == {"exact", "below"}
ByteStrings == UNION {[1..n -> ByteValues] : n \in 0..MaxBytes}

(* struct.unpack('<{n}h', data) with n = len(data) // 2, for data of 2n     *)
(* bytes.                                                                   *)
unpack(data) ==
    [k \in 1..(Len(data) \div 2) |->
        LET u == data[2 * k - 1] + 256 * data[2 * k] IN
        IF u >= 32768 THEN u - 65536 ELSE u]

(* struct.pack('<{n}h', *samples).                                          *)
pack(samples) ==
    [j \in 1..(2 * Len(samples)) |->
        LET s == samples[(j + 1) \div 2]
            u == IF s < 0 THEN s + 65536 ELSE s
        IN IF j % 2 = 1 THEN u % 256 ELSE u \div 256]

(* int() of the float that stands for the quotient a / b, a >= 0, b > 0.    *)
int_of(a, b, rounding) ==
    IF rounding = "below" /\ a > 0 /\ a % b = 0 THEN a \div b - 1 ELSE a \div b

(* Lines 213-219 of audio.py for the output index i: r / to_rate is the     *)
(* fraction of the position; int() truncates towards zero.  A position      *)
(* computed just below the whole number idx + 1 gives a value just beside   *)
(* samples[idx + 1], on the side of samples[idx]; a weighted sum computed   *)
(* just beside a whole number truncates to one less in magnitude.           *)
interpolate(samples, i, from_rate, to_rate, rounding) ==
    LET idx == int_of(i * from_rate, to_rate, rounding)
        r == i * from_rate - idx * to_rate
    IN
    IF idx + 2 <= Len(samples)
    THEN LET a == samples[idx + 1]
             b == samples[idx + 2]
             e == a * (to_rate - r) + b * r
             q == IF e >= 0 THEN e \div to_rate ELSE -((-e) \div to_rate)
             toward == IF r = to_rate THEN (IF q > 0 THEN a < b ELSE a > b)
                       ELSE a # b
         IN IF rounding = "below" /\ e % to_rate = 0 /\ q # 0 /\ toward
            THEN (IF q > 0 THEN q - 1 ELSE q + 1)
            ELSE q
    ELSE samples[Len(samples)]

(* Line 221.                                                                *)
clip16(v) == IF v < -32768 THEN -32768 ELSE IF v > 32767 THEN 32767 ELSE v

resample_linear_no_shortcut(data, from_rate, to_rate, rounding) ==
    IF Len(data) % 2 = 1 THEN [status |-> "raised", out |-> <<>>]
    ELSE IF Len(data) = 0 THEN [status |-> "returned", out |-> data]
    ELSE LET samples == unpack(data)
             new_length == int_of(Len(samples) * to_rate, from_rate, rounding)
         IN [status |-> "returned",
             out |-> pack([i \in 1..new_length |->
                        clip16(interpolate(samples, i - 1, from_rate, to_rate,
                                           rounding))])]

(* resample_linear(data, from_rate, to_rate), lines 196-222: unpack raises  *)
(* struct.error for data of odd length.                                     *)
resample_linear(data, from_rate, to_rate, rounding) ==
    IF from_rate = to_rate THEN [status |-> "returned", out |-> data]
    ELSE IF Len(data) % 2 = 1 THEN [status |-> "raised", out |-> <<>>]
    ELSE IF Len(data) = 0 THEN [status |-> "returned", out |-> data]
    ELSE LET samples == unpack(data)
             new_length == int_of(Len(samples) * to_rate, from_rate, rounding)
         IN [status |-> "returned",
             out |-> pack([i \in 1..new_length |->
                        clip16(interpolate(samples, i - 1, from_rate, to_rate,
                                           rounding))])]

(* No part of the assistant is at work while a function is applied.        *)
function_init ==
    /\ _running = FALSE
    /\ _state = "LISTENING"
    /\ elapsed = 0
    /\ _active_tasks = {}
    /\ config = [wake_enabled |-> TRUE]
    /\ main = [pc |-> "start", cancel |-> FALSE]
    /\ session = 0
    /\ tasks = [s \in Sessions |-> [r \in Roles |-> NoTask]]
    /\ recv = [s \in Sessions |-> NoLocals]
    /\ channel = "none"
    /\ capture = Stopped
    /\ player = Stopped
    /\ _buffer = <<>>
    /\ _event = FALSE
    /\ unanswered = {}
    /\ turn_closed = {}
    /\ echo_canceller = FALSE
    /\ _lock = "none"
    /\ callback = NoCall
    /\ gen = NoGen
    /\ device = NoDevice
    /\ aec = NewAec
    /\ effects = NewEffects
    /\ wiring = [echo_canceller |-> FALSE, effects_processor |-> TRUE]

InitResample ==
    /\ function_init
    /\ \E data \in ByteStrings : \E from_rate, to_rate \in Rates :
         coop = [pc |-> "resample", data |-> data,
                 from_rate |-> from_rate, to_rate |-> to_rate]

function_frame == <<_running, _state, elapsed, _active_tasks, config, main,
                    session, tasks, recv, channel, capture, player, _buffer,
                    _event, unanswered, turn_closed, echo_canceller, _lock,
                    callback, gen, device, aec, effects, wiring>>

(* The call of resample_linear on the drawn input returns or raises.        *)
resample(rounding) ==
    /\ coop.pc = "resample"
    /\ LET res == resample_linear(coop.data, coop.from_rate, coop.to_rate,
                                  rounding)
       IN coop' = [pc |-> "resampled", data |-> coop.data,
                   from_rate |-> coop.from_rate, to_rate |-> coop.to_rate,
                   rounding |-> rounding,
                   status |-> res.status, out |-> res.out]
    /\ UNCHANGED function_frame

NextResample == \E rounding \in Roundings : resample(rounding)

SpecResample == InitResample /\ [][NextResample]_vars


(* --------------- GLaDOSEffectsProcessor._apply_pitch_shift -------------- *)
(* The samples are numbers of a small grid (the floats of the code, scaled) *)
(* and the pitch ratio 2 ** (pitch_shift / 12) is a fraction <<num, den>>.  *)
MaxSamples == 4

SampleValues == {-2, 0, 2}
PitchRatios == {<<1, 2>>, <<2, 3>>, <<1, 1>>, <<3, 2>>, <<2, 1>>, <<5, 1>>}
SampleArrays == UNION {[1..n -> SampleValues] : n \in 0..MaxSamples}

(* Lines 78-87 of glados_effects.py: np.linspace(0, n - 1, new_length) and  *)
(* the linear interpolation at these positions; the value is kept on the    *)
(* grid.                                                                    *)
linspace_interpolate(samples, new_length) ==
    LET n == Len(samples) IN
    [j \in 1..new_length |->
        IF new_length = 1 THEN samples[1]
        ELSE LET num == (j - 1) * (n - 1)
                 den == new_length - 1
                 idx_floor == num \div den
                 idx_ceil == IF idx_floor + 1 < n - 1 THEN idx_floor + 1 ELSE n - 1
                 r == num % den
             IN (samples[idx_floor + 1] * (den - r) + samples[idx_ceil + 1] * r)
                    \div den]

pad_only(output, n) ==
    IF Len(output) < n
    THEN output \o [k \in 1..(n - Len(output)) |-> 0]
    ELSE output

(* Lines 89-93: np.pad with zeros at the end, or the slice [:n].            *)
pad_or_trim(output, n) ==
    IF Len(output) < n
    THEN output \o [k \in 1..(n - Len(output)) |-> 0]
    ELSE IF Len(output) > n THEN SubSeq(output, 1, n)
    ELSE output

(* _apply_pitch_shift(samples), lines 62-95, with pitch ratio num / den.    *)
_apply_pitch_shift(samples, ratio, rounding) ==
    IF ratio[1] = ratio[2] THEN samples
    ELSE LET new_length == int_of(Len(samples) * ratio[2], ratio[1], rounding) IN
         IF new_length < 1 THEN samples
         ELSE pad_or_trim(linspace_interpolate(samples, new_length), Len(samples))

InitPitch ==
    /\ function_init
    /\ \E samples \in SampleArrays : \E ratio \in PitchRatios :
         coop = [pc |-> "pitch", samples |-> samples, ratio |-> ratio]

(* The call of _apply_pitch_shift on the drawn input returns.               *)
pitch_shift(rounding) ==
    /\ coop.pc = "pitch"
    /\ coop' = [pc |-> "shifted", samples |-> coop.samples, ratio |-> coop.ratio,
                rounding |-> rounding,
                out |-> _apply_pitch_shift(coop.samples, coop.ratio, rounding)]
    /\ UNCHANGED function_frame

NextPitch == \E rounding \in Roundings : pitch_shift(rounding)

SpecPitch == InitPitch /\ [][NextPitch]_vars


(* ---------------- GLaDOSEffectsProcessor._apply_bitcrush ---------------- *)
(* process() with the effects enabled and bit-depth reduction alone active  *)
(* (pitch_shift 0, no chorus, no resonance).  A float sample of the code is *)
(* the number n / 32768 with n whole, which is exact for the bit depths of  *)
(* the model; the model keeps n.                                            *)
BitDepths == {1, 4, 12, 16}

(* np.round(a / b) for b > 0: halves go to the even number.                 *)
np_round(a, b) ==
    LET q == a \div b
        r == a % b
    IN IF 2 * r > b THEN q + 1
       ELSE IF 2 * r < b THEN q
       ELSE IF q % 2 = 0 THEN q ELSE q + 1

_apply_bitcrush_unbalanced(n, bits) ==
    np_round(n * 2^(bits - 1), 32768) * (32768 \div 2^bits)

(* Lines 162-167 of glados_effects.py for one sample n / 32768:             *)
(* np.round(x * (levels / 2)) / (levels / 2) with levels = 2 ** bits.       *)
_apply_bitcrush(n, bits) ==
    np_round(n * 2^(bits - 1), 32768) * (32768 \div 2^(bits - 1))

(* Lines 181-199: frombuffer raises ValueError for bytes of odd length;     *)
(* np.clip(samples * 32768, -32768, 32767).astype(np.int16).tobytes().      *)
process_bitcrush(audio_bytes, bits) ==
    IF Len(audio_bytes) % 2 = 1 THEN [status |-> "raised", out |-> <<>>]
    ELSE LET samples == unpack(audio_bytes) IN
         [status |-> "returned",
          out |-> pack([k \in 1..Len(samples) |->
                          clip16(_apply_bitcrush(samples[k], bits))])]

InitCrush ==
    /\ function_init
    /\ \E audio_bytes \in ByteStrings : \E bits \in BitDepths :
         coop = [pc |-> "crush", data |-> audio_bytes, bits |-> bits]

(* process() is applied to the drawn frame.                                 *)
crush ==
    /\ coop.pc = "crush"
    /\ LET res == process_bitcrush(coop.data, coop.bits) IN
       coop' = [pc |-> IF res.status = "returned" THEN "crushed" ELSE "raised",
                data |-> coop.data, bits |-> coop.bits, out |-> res.out]
    /\ UNCHANGED function_frame

(* process() is applied to its own output, and _apply_bitcrush to its own   *)
(* result on the samples of the frame.                                      *)
crush_again ==
    /\ coop.pc = "crushed"
    /\ LET samples == unpack(coop.data) IN
       coop' = [pc |-> "crushed twice", data |-> coop.data, bits |-> coop.bits,
                out |-> coop.out,
                again |-> process_bitcrush(coop.out, coop.bits).out,
                quantized |-> [k \in 1..Len(samples) |->
                                 _apply_bitcrush(samples[k], coop.bits)],
                requantized |-> [k \in 1..Len(samples) |->
                                 _apply_bitcrush(
                                     _apply_bitcrush(samples[k], coop.bits),
                                     coop.bits)]]
    /\ UNCHANGED function_frame

NextCrush == crush \/ crush_again

SpecCrush == InitCrush /\ [][NextCrush]_vars


(* -------------------------------- claims -------------------------------- *)
(* C1: every change of _state is one of the transitions of the table:       *)
(* LISTENING->ACTIVATED, ACTIVATED->RESPONDING, RESPONDING->ACTIVATED,      *)
(* ACTIVATED->LISTENING, RESPONDING->LISTENING; in particular never         *)
(* LISTENING->RESPONDING.                                                   *)
C1_theorem ==
    [][_state' # _state =>
         <<_state, _state'>> \in {<<"LISTENING", "ACTIVATED">>,
                                  <<"ACTIVATED", "RESPONDING">>,
                                  <<"RESPONDING", "ACTIVATED">>,
                                  <<"ACTIVATED", "LISTENING">>,
                                  <<"RESPONDING", "LISTENING">>}]_vars

(* The watchdog has set LISTENING while the receive task of the session     *)
(* still waits for a message.                                               *)
C1_witness ==
    /\ _state = "LISTENING"
    /\ _running
    /\ \E s \in Sessions :
         /\ tasks[s]["timeout"].exit = "timeout"
         /\ tasks[s]["receive"].pc = "receive"
         /\ ChannelOf(s) = "open"

(* C2: _send_audio initiates the send of a frame only when the assistant is *)
(* running and the state is ACTIVATED; the frames it takes from the stream  *)
(* while the state is RESPONDING are dropped, none is sent and none kept.   *)
C2_theorem ==
    [][\A s \in Sessions :
         /\ ((_send_audio(s) \/ _send_audio_sent(s))
                /\ tasks'[s]["send"].pc = "sending")
              => (_running /\ _state = "ACTIVATED")
         /\ (_send_audio(s) /\ _event /\ _running /\ _state = "RESPONDING")
              => (_buffer' = <<>> /\ tasks'[s]["send"].pc # "sending")]_vars

(* A frame is on its way to the backend, sent while ACTIVATED, and the      *)
(* state has become RESPONDING with frames queued.                          *)
C2_witness ==
    /\ _running
    /\ _state = "RESPONDING"
    /\ _buffer # <<>>
    /\ \E s \in Sessions : tasks[s]["send"].pc = "sending"

(* C3: the state is LISTENING before run(); with wake-word detection        *)
(* enabled every step that leaves LISTENING goes to ACTIVATED and is the    *)
(* step of _listen_for_wakeword, on a running assistant, in which the       *)
(* detector returned a label for a captured frame.                          *)
C3_theorem ==
    [][/\ main.pc = "start" => _state = "LISTENING"
       /\ (config.wake_enabled /\ _state = "LISTENING" /\ _state' # "LISTENING")
            => /\ _state' = "ACTIVATED"
               /\ main.pc = "listen"
               /\ _listen_for_wakeword
               /\ _running
               /\ \E k \in process_audio(_buffer) \ {0} :
                    _buffer' = SubSeq(_buffer, k + 1, Len(_buffer))]_vars

(* With wake-word detection enabled a session has been started.             *)
C3_witness ==
    /\ config.wake_enabled
    /\ _state = "ACTIVATED"
    /\ main.pc = "connect"

(* C4: in a running session a message with model-turn audio received in     *)
(* ACTIVATED sets RESPONDING, and a turn-complete received in RESPONDING    *)
(* with no end_session requested sets ACTIVATED and resets the clock.       *)
C4_theorem ==
    [][\A s \in Sessions :
         /\ (_receive_audio(s, Response(<<>>, TRUE, FALSE))
                /\ _running /\ _state = "ACTIVATED")
              => _state' = "RESPONDING"
         /\ (_receive_audio(s, Response(<<>>, FALSE, TRUE))
                /\ _running /\ _state = "RESPONDING"
                /\ ~recv[s].end_session_requested)
              => (_state' = "ACTIVATED" /\ elapsed' = 0)]_vars

(* The receive task of a running session waits for a message in RESPONDING, *)
(* no end_session requested, and the clock has advanced.                    *)
C4_witness ==
    /\ _running
    /\ _state = "RESPONDING"
    /\ elapsed > 0
    /\ \E s \in Sessions :
         /\ tasks[s]["receive"].pc = "receive"
         /\ ~recv[s].end_session_requested
         /\ ChannelOf(s) = "open"

(* C5: once the watchdog has timed the session out, the program does not    *)
(* come to rest, whatever the backend does, before the channel is closed:   *)
(* not even with the send task already ended.                               *)
C5_counterexample ==
    (/\ \E s \in Sessions :
          /\ tasks[s]["timeout"].exit = "timeout"
          /\ tasks[s]["send"].pc = "done"
     /\ ~ENABLED <<Program>>_vars)
        => channel = "closed"

(* C6: when turn-complete arrives after end_session was requested, the      *)
(* state is LISTENING after the step, and no end_session call is left       *)
(* without its tool response.                                               *)
C6_theorem ==
    [][\A s \in Sessions :
         (_receive_audio(s, Response(<<>>, FALSE, TRUE))
             /\ recv[s].end_session_requested)
           => /\ _state' = "LISTENING"
              /\ ~\E c \in unanswered : c.name = "end_session"]_vars

(* The receive task has ended on the turn-complete that follows an          *)
(* end_session call.                                                        *)
C6_witness ==
    /\ _state = "LISTENING"
    /\ \E s \in Sessions : tasks[s]["receive"].exit = "end_session"

(* C7: no function call, whatever its name, is without a tool response when *)
(* the turn-complete of its turn is processed.                              *)
C7_counterexample == turn_closed = {}

(* C8: an error of session.receive() in the session in progress, in         *)
(* ACTIVATED or RESPONDING, leaves the state LISTENING in the same step.    *)
C8_counterexample ==
    [][\A s \in Sessions :
         (/\ _receive_audio_error(s)
          /\ s = session
          /\ main.pc = "gather"
          /\ _running
          /\ _state \in {"ACTIVATED", "RESPONDING"})
           => _state' = "LISTENING"]_vars

(* C9: a call of shutdown() on a running assistant leaves the state         *)
(* LISTENING, every task still in flight cancelled, and both devices        *)
(* released.                                                                *)
C9_counterexample ==
    [][(_running /\ ~_running') =>
         /\ _state' = "LISTENING"
         /\ \A s \in Sessions, r \in Roles :
              Pending(tasks'[s][r]) => tasks'[s][r].cancel
         /\ capture' = Stopped
         /\ player' = Stopped]_vars

(* C10: once shutdown has been requested, the program does not come to rest *)
(* before run() has returned: it needs no further message and no further    *)
(* frame to get there.                                                      *)
C10_counterexample ==
    (main.pc # "start" /\ ~_running /\ ~ENABLED <<Program>>_vars)
        => main.pc = "returned"

(* C11: once the state is LISTENING during a session, the program does not  *)
(* come to rest with one of the three tasks of the session still in         *)
(* flight: each stops without a further frame or backend message.           *)
C11_counterexample ==
    (/\ _running
     /\ _state = "LISTENING"
     /\ main.pc = "gather"
     /\ ~ENABLED <<Program>>_vars)
        => \A r \in Roles : ~Pending(tasks[session][r])

(* C12: no task of a session is still running, uncancelled, once            *)
(* _run_session has returned from that session.                             *)
C12_counterexample ==
    \A s \in Sessions :
        (s < session \/ (s = session /\ main.pc \in {"listen", "returned"}))
            => \A r \in Roles : ~(Pending(tasks[s][r]) /\ ~tasks[s][r].cancel)

(* C13: the capture buffer never holds more than its capacity; a push into  *)
(* a full buffer drops the oldest frame, keeps the new one, and increments  *)
(* a drop counter, that is, changes some attribute of AudioCapture other    *)
(* than the buffer.                                                         *)
C13_counterexample ==
    /\ [](Len(_buffer) <= BufferMaxLen)
    /\ [][(callback.pc = "append" /\ callback'.pc = "set"
                /\ Len(_buffer) = BufferMaxLen)
            => /\ _buffer' = Append(Tail(_buffer), callback.in_data)
               /\ <<capture, echo_canceller, _event, _lock>>'
                      # <<capture, echo_canceller, _event, _lock>>]_vars

(* C14: stream() yields the frames in the order the callback pushed them,   *)
(* always the oldest queued one, and goes back to waiting only when no      *)
(* frame that was queued when it woke is left in the buffer.                *)
C14_theorem ==
    [][/\ (gen.pc = "locked" /\ gen'.pc = "yield")
            => /\ gen'.data = Head(_buffer)
               /\ gen'.data > gen.data
               /\ \A i \in 1..Len(_buffer') : _buffer'[i] > gen'.data
       /\ (gen.pc = "locked" /\ gen'.pc = "wait")
            => \A i \in 1..Len(_buffer') : _buffer'[i] > gen.queued]_vars

C14_witness ==
    /\ gen.pc = "wait"
    /\ gen.batch = 2
    /\ gen.data = gen.queued

(* C15: the generator holds the buffer lock only inside lines 304-307,      *)
(* never while it is suspended at the yield or in the wait, and its next    *)
(* step releases it after at most one pop, so a callback that waits for     *)
(* the lock gets it after that step.                                        *)
C15_theorem ==
    /\ [](_lock = "stream" => gen.pc = "locked")
    /\ [][(_lock = "stream" /\ gen' # gen)
            => /\ _lock' = "none"
               /\ Len(_buffer') >= Len(_buffer) - 1]_vars

C15_witness ==
    /\ _lock = "stream"
    /\ callback.pc = "append"
    /\ _buffer # <<>>

(* C16: the wait of stream() never lasts longer than one polling interval,  *)
(* and a generator is never found waiting more than one polling interval    *)
(* after stop(): its wait has timed out and it has ended.                   *)
C16_theorem ==
    /\ gen.pc = "wait" => gen.waited <= PollInterval
    /\ (device.stopped /\ gen.pc = "wait") => device.since_stop <= PollInterval

C16_witness ==
    /\ device.stopped
    /\ gen.pc = "ended"
    /\ gen.waited = PollInterval
    /\ device.since_stop = PollInterval
    /\ ~_event
    /\ _buffer = <<>>

(* C17: the device thread that runs the capture callback is never inside    *)
(* an access to the state of the echo canceller, whatever the capture was   *)
(* constructed with.                                                        *)
C17_counterexample ==
    /\ callback.pc \notin {"test", "lock", "processing"}
    /\ lock_holder(aec) # "callback"

(* C18: a context that is inside an access to the state of the echo         *)
(* canceller holds the lock of the canceller, and a context that is inside  *)
(* an access to the state of the effects holds the lock of the effects.     *)
C18_counterexample ==
    /\ callback.pc = "processing" => lock_holder(aec) = "callback"
    /\ coop.pc = "feeding" => lock_holder(aec) = "playback"
    /\ coop.pc = "clearing" => lock_holder(aec) = "reset"
    /\ coop.pc = "effects" => lock_holder(effects) = "playback"

(* C19: a call of process() that ends while no reference block is queued    *)
(* returns its input frame itself, raises nothing and leaves the state of   *)
(* the canceller as it was; and with the lock it returns at once, without   *)
(* a reference.                                                             *)
C19_theorem ==
    /\ []((callback.pc = "processing" /\ aec._playback_queue = <<>>)
            => ENABLED (\E y \in FilterOutputs : process_return(y)))
    /\ [][(callback' # callback /\ callback'.pc = "idle"
                /\ aec._playback_queue = <<>>)
            => /\ callback'.status = "returned"
               /\ callback'.out = callback'.in_data
               /\ [aec' EXCEPT !._lock = "none"] = [aec EXCEPT !._lock = "none"]]_vars

C19_witness ==
    /\ callback.pc = "idle"
    /\ DOMAIN callback = {"pc", "in_data", "out", "status", "y"}
    /\ callback.in_data.full
    /\ callback.status = "returned"
    /\ callback.out = callback.in_data
    /\ capture.running
    /\ aec._playback_queue = <<>>
    /\ aec._playback_buffer > 0

(* C20: a call of process() that reaches the filter (a full frame, a        *)
(* reference block queued) returns a frame and raises nothing, and the      *)
(* frame is the microphone frame when the filter output is not finite.      *)
C20_counterexample ==
    [][(callback.pc = "processing" /\ callback'.pc = "idle"
            /\ aec._playback_queue # <<>>)
        => /\ callback'.status = "returned"
           /\ callback'.y = "nonfinite" => callback'.out = callback.in_data]_vars

(* C21: a call of process() with a frame that has not the configured size   *)
(* returns that frame at its first test, raises nothing, and leaves the     *)
(* canceller as it was: no reference block is consumed.                     *)
C21_theorem ==
    [][(callback.pc = "test" /\ ~callback.in_data.full /\ callback' # callback)
        => /\ callback'.pc = "idle"
           /\ callback'.status = "returned"
           /\ callback'.out = callback.in_data
           /\ aec' = aec]_vars

C21_witness ==
    /\ callback.pc = "idle"
    /\ DOMAIN callback = {"pc", "in_data", "out", "status", "y"}
    /\ ~callback.in_data.full
    /\ callback.out = callback.in_data
    /\ ~aec._shutdown
    /\ aec._playback_queue # <<>>

(* C22: clear() ends without an error, and after it the reference queue     *)
(* and the accumulation buffer of partial reference samples are empty and   *)
(* the history window, the weights and the power estimate are zero.         *)
C22_counterexample ==
    [][(coop.pc = "clearing" /\ coop'.pc = "idle")
        => /\ coop'.status = "returned"
           /\ aec'._playback_queue = <<>>
           /\ aec'._playback_buffer = 0
           /\ aec'.filter = "zero"]_vars

(* C23: when a session starts, the state of the effects is zero: the chorus *)
(* buffer, its cursor, the LFO phase and the resonance registers carry      *)
(* nothing over from the session before.                                    *)
C23_counterexample ==
    [][(session' = session + 1) => effects'.clean]_vars

(* C24: a port has no handle open in the audio system but those it refers   *)
(* to (a second start() opens no second handle, a second stop() changes     *)
(* nothing), a port whose start() raised holds no open handle, and no       *)
(* handle is open once run() was left by an exception of a start().         *)
C24_counterexample ==
    \A p \in {capture, player} :
        /\ p.pa_open = (IF p.pyaudio THEN 1 ELSE 0)
        /\ p.streams_open = (IF p.stream THEN 1 ELSE 0)
        /\ (p.raised /\ ~p.started) => (p.pa_open = 0 /\ p.streams_open = 0)
        /\ main.pc = "raised" => (p.pa_open = 0 /\ p.streams_open = 0)

(* C25: a port is running exactly when a start() has returned since the     *)
(* last stop(); a running port has both its handles; a port never started   *)
(* or stopped is not running and has no handle.                             *)
C25_counterexample ==
    \A p \in {capture, player} :
        /\ p.running <=> p.started
        /\ p.running => (p.pyaudio /\ p.stream)
        /\ (~p.started /\ ~p.raised) => (~p.running /\ ~p.pyaudio /\ ~p.stream)

(* C26 as stated: the clock is set by every step that forwards a frame, by  *)
(* every step that handles a turn-complete and by the activation, time      *)
(* alone advances it, and the watchdog moves ACTIVATED to LISTENING only    *)
(* with a whole timeout interval on the clock.                              *)
C26_counterexample ==
    [][/\ \A s \in Sessions :
            /\ (_send_audio_sent(s) /\ ChannelOf(s) = "open") => elapsed' = 0
            /\ (_receive_audio(s, Response(<<>>, FALSE, TRUE))
                    /\ ~receive_break(_running, _state)) => elapsed' = 0
            /\ (_check_timeout(s) /\ _state = "ACTIVATED" /\ _state' = "LISTENING")
                  => elapsed >= Timeout
       /\ (_state # "ACTIVATED" /\ _state' = "ACTIVATED") => elapsed' = 0
       /\ elapsed' > elapsed => (tick /\ elapsed' = elapsed + 1)]_vars

(* C26, amended: the clock is set by every step that forwards a frame, by   *)
(* every step that handles a turn-complete with no end of session requested *)
(* (with one requested the step sets LISTENING and leaves the clock) and by *)
(* the activation; time alone advances it; and the watchdog moves ACTIVATED *)
(* to LISTENING only with a whole timeout interval on the clock, that is    *)
(* with no frame forwarded and no turn completed during that interval.      *)
C26_theorem ==
    [][/\ \A s \in Sessions :
            /\ (_send_audio_sent(s) /\ ChannelOf(s) = "open") => elapsed' = 0
            /\ (_receive_audio(s, Response(<<>>, FALSE, TRUE))
                    /\ ~receive_break(_running, _state))
                  => IF recv[s].end_session_requested
                     THEN _state' = "LISTENING" /\ elapsed' = elapsed
                     ELSE elapsed' = 0
            /\ (_check_timeout(s) /\ _state = "ACTIVATED" /\ _state' = "LISTENING")
                  => elapsed >= Timeout
       /\ (_state # "ACTIVATED" /\ _state' = "ACTIVATED") => elapsed' = 0
       /\ elapsed' > elapsed => (tick /\ elapsed' = elapsed + 1)]_vars

(* The watchdog has timed out a session whose send task had forwarded a     *)
(* frame and waits for the next.                                            *)
C26_witness ==
    /\ _state = "LISTENING"
    /\ elapsed >= Timeout
    /\ \E s \in Sessions :
         /\ tasks[s]["timeout"].pc = "done"
         /\ tasks[s]["timeout"].exit = "timeout"
         /\ tasks[s]["send"].pc = "wait"

(* C27: resample_linear returns the very bytes it was given when the two    *)
(* rates are equal, whatever the length, and returns no byte for an input   *)
(* of no byte at any pair of rates.                                         *)
C27_theorem ==
    coop.pc = "resampled" =>
        /\ coop.from_rate = coop.to_rate
              => (coop.status = "returned" /\ coop.out = coop.data)
        /\ coop.data = <<>> => (coop.status = "returned" /\ coop.out = <<>>)

(* An input of odd length has come back unchanged at equal rates.           *)
C27_witness ==
    /\ coop.pc = "resampled"
    /\ coop.from_rate = coop.to_rate
    /\ Len(coop.data) % 2 = 1
    /\ coop.out = coop.data

(* C28: for an input of n samples resample_linear returns                   *)
(* round(n * target_rate / source_rate) samples (round of Python: halves go *)
(* to the even number).                                                     *)
C28_counterexample ==
    (coop.pc = "resampled" /\ Len(coop.data) % 2 = 0) =>
        LET a == (Len(coop.data) \div 2) * coop.to_rate
            b == coop.from_rate
            q == a \div b
            r == a % b
            round == IF 2 * r > b THEN q + 1
                     ELSE IF 2 * r < b THEN q
                     ELSE IF q % 2 = 0 THEN q ELSE q + 1
        IN /\ coop.status = "returned"
           /\ Len(coop.out) = 2 * round

(* C29: every sample resample_linear returns is in [-32768, 32767], and the *)
(* output sample whose source position is at or beyond the last source      *)
(* sample has the value of the last source sample.                          *)
C29_counterexample ==
    (coop.pc = "resampled" /\ coop.status = "returned"
        /\ coop.from_rate # coop.to_rate) =>
        LET src == unpack(coop.data)
            res == unpack(coop.out)
        IN \A i \in 1..Len(res) :
              /\ res[i] \in -32768..32767
              /\ (i - 1) * coop.from_rate >= (Len(src) - 1) * coop.to_rate
                    => res[i] = src[Len(src)]

(* C30: the pitch-shift stage returns as many samples as it was given, for  *)
(* every length and every pitch ratio; a shorter interpolation is followed  *)
(* by zeros up to that length.                                              *)
C30_theorem ==
    coop.pc = "shifted" =>
        /\ Len(coop.out) = Len(coop.samples)
        /\ LET new_length == int_of(Len(coop.samples) * coop.ratio[2],
                                    coop.ratio[1], coop.rounding)
           IN (coop.ratio[1] > coop.ratio[2] /\ new_length >= 1)
                 => \A k \in (new_length + 1)..Len(coop.out) : coop.out[k] = 0

(* A pitch lowered by a ratio of 1/2 has interpolated twice as many samples *)
(* as were given, and the result has been cut to the length of the input.   *)
C30_witness ==
    /\ coop.pc = "shifted"
    /\ coop.ratio = <<1, 2>>
    /\ Len(coop.samples) = MaxSamples
    /\ Len(coop.out) = MaxSamples
    /\ coop.out # coop.samples

(* C31: the bit-depth reduction applied twice with the same bit depth gives *)
(* what it gives applied once, on the samples and on the frames of          *)
(* process().                                                               *)
C31_theorem ==
    coop.pc = "crushed twice" =>
        /\ coop.requantized = coop.quantized
        /\ coop.again = coop.out

(* A frame with a full-scale sample that the reduction has changed has gone *)
(* through it twice.                                                        *)
C31_witness ==
    /\ coop.pc = "crushed twice"
    /\ coop.bits = 12
    /\ coop.out # coop.data
    /\ \E k \in 1..Len(coop.quantized) : coop.quantized[k] = 32768

(* C32: with bit depth 12 every sample process() returns is a multiple of   *)
(* 32768 / 2048 = 16.                                                       *)
C32_counterexample ==
    (coop.pc = "crushed" /\ coop.bits = 12) =>
        LET res == unpack(coop.out) IN
        \A k \in 1..Len(res) : res[k] % 16 = 0

(* C33: a chunk a started player accepts goes to the effects first when     *)
(* they are configured, from them to the reference feed of the canceller    *)
(* when one is configured, and is written to the device last; the feed is   *)
(* entered from nowhere else, and only the write ends the chunk.  On a      *)
(* player that is not started play_sync returns at once and leaves the      *)
(* effects and the canceller as they are.                                   *)
C33_theorem ==
    [][/\ (coop.pc = "idle" /\ coop'.pc \notin {"idle", "clearing"})
            => /\ player.stream /\ player.running
               /\ coop'.pc = IF wiring.effects_processor THEN "effects"
                             ELSE IF wiring.echo_canceller THEN "feed"
                             ELSE "write"
       /\ (coop.pc = "effects" /\ coop' # coop)
            => /\ ~effects'.clean
               /\ aec' = aec
               /\ coop'.pc = IF wiring.echo_canceller THEN "feed" ELSE "write"
       /\ (coop.pc = "feed" /\ coop' # coop) => coop'.pc = "feeding"
       /\ (coop.pc = "feeding" /\ coop' # coop)
            => (coop'.pc = "write" /\ effects' = effects)
       /\ (coop.pc = "write" /\ coop' # coop)
            => (coop'.pc = "idle" /\ effects' = effects /\ aec' = aec)
       /\ (coop.pc # "idle" /\ coop'.pc = "idle") => coop.pc \in {"write", "clearing"}
       /\ \A n \in ChunkSizes :
            (play_sync(n) /\ ~(player.stream /\ player.running))
               => (coop'.pc = "idle" /\ effects' = effects /\ aec' = aec)]_vars

(* A chunk that went through the effects and the reference feed is about to *)
(* be written.                                                              *)
C33_witness ==
    /\ coop.pc = "write"
    /\ wiring.effects_processor
    /\ wiring.echo_canceller
    /\ ~effects.clean
    /\ aec.made > 0

(* C34: the accumulation buffer holds fewer samples than one block and the  *)
(* reference queue holds at most its bound of blocks, which are the latest  *)
(* blocks made, in order; and a call of feed_playback with n samples makes  *)
(* blocks of all the samples pending and new but a remainder shorter than a *)
(* block, appends them in order and drops the oldest blocks beyond the      *)
(* bound.                                                                   *)
C34_theorem ==
    /\ [](/\ aec._playback_buffer < FrameSize
          /\ Len(aec._playback_queue) <= QueueMaxLen
          /\ \A i \in 1..Len(aec._playback_queue) :
               aec._playback_queue[i] = aec.made - Len(aec._playback_queue) + i)
    /\ [][(coop.pc = "feeding" /\ coop' # coop)
            => LET all == aec._playback_queue \o
                              [i \in 1..(aec'.made - aec.made) |-> aec.made + i]
                   keep == Min(Len(all), QueueMaxLen)
               IN /\ FrameSize * aec'.made + aec'._playback_buffer
                        = FrameSize * aec.made + aec._playback_buffer + coop.data
                  /\ aec'._playback_queue
                        = SubSeq(all, Len(all) - keep + 1, Len(all))]_vars

(* A call has left a remainder in the buffer after the queue has dropped    *)
(* its oldest block.                                                        *)
C34_witness ==
    /\ coop.pc = "write"
    /\ aec._playback_buffer > 0
    /\ Len(aec._playback_queue) = QueueMaxLen
    /\ aec._playback_queue[1] > 1

(* C35: process() on a full-size frame, with a reference block queued when  *)
(* the lock is taken, returns a frame of the size of its input and takes    *)
(* the oldest block off the queue, and no other.                            *)
C35_counterexample ==
    [][(callback.pc = "processing" /\ callback' # callback
            /\ aec._playback_queue # <<>>)
          => /\ callback'.status = "returned"
             /\ callback'.out.full = callback.in_data.full
             /\ aec'._playback_queue = Tail(aec._playback_queue)]_vars

(* C36: the frame the send task hands to session.send was not pushed by the *)
(* callback while the assistant was playing (RESPONDING, or the greeting).  *)
C36_counterexample ==
    [][\A s \in Sessions :
         (tasks[s]["send"].pc # "sending" /\ tasks'[s]["send"].pc = "sending")
            => Head(_buffer) = "quiet"]_vars

(* C37: with no shutdown requested, a session whose three tasks run does    *)
(* not come to rest, the timeout interval over, in a state other than       *)
(* LISTENING: it needs no further message of the backend to get there.      *)
C37_counterexample ==
    (/\ _running
     /\ main.pc = "gather"
     /\ ~main.cancel
     /\ elapsed >= Timeout
     /\ ~ENABLED <<Program>>_vars)
        => _state = "LISTENING"

(* C38: no wake-up is lost: the generator of a consumer that has kept       *)
(* iterating, when it waits with the event clear, has an empty buffer,      *)
(* unless the callback is between its push and its set;                     *)
(* the wait lasts at most one polling interval; a frame leaves the buffer   *)
(* whole, either dropped by the push into a full buffer or popped and       *)
(* yielded; and each yield is of a frame pushed later than the frame        *)
(* yielded before, so that no frame is yielded twice.                       *)
C38_theorem ==
    /\ []((gen.pc = "wait" /\ ~gen.left /\ ~_event /\ callback.pc # "set")
             => _buffer = <<>>)
    /\ [](gen.pc = "wait" => gen.waited <= PollInterval)
    /\ [][/\ _buffer' # _buffer
             => \/ /\ callback.pc = "append"
                   /\ _buffer' = Append_maxlen(_buffer, callback.in_data)
                \/ /\ gen'.pc = "yield"
                   /\ gen'.data = Head(_buffer)
                   /\ _buffer' = Tail(_buffer)
          /\ (gen'.pc = "yield" /\ gen.pc # "yield") => gen'.data > gen.data]_vars

(* The callback has pushed a frame after the generator, which had yielded   *)
(* the frames before it, found the buffer empty and went back to waiting;   *)
(* the event is not set yet.                                                *)
C38_witness ==
    /\ gen.pc = "wait"
    /\ gen.data > 0
    /\ ~gen.left
    /\ ~_event
    /\ callback.pc = "set"
    /\ _buffer # <<>>
    /\ capture.running

(* C39: shutdown() is idempotent and does nothing when the assistant is not *)
(* running: a call before run() or after an earlier call, the one of the    *)
(* finally clause of run() included, leaves _running, the state, the task   *)
(* list, the tasks and both audio ports as they are; a call on a running    *)
(* assistant leaves it not running, so that a second call changes nothing   *)
(* of what the first one left.                                              *)
C39_theorem ==
    [][/\ (~_running /\ (shutdown_called \/ (main'.pc = "returned" /\ main.pc # "returned")))
          => /\ ~_running'
             /\ _active_tasks' = _active_tasks
             /\ tasks' = tasks
             /\ capture' = capture
             /\ player' = player
       /\ (~_running /\ shutdown_called) => _state' = _state
       /\ (_running /\ shutdown_called)
          => /\ ~_running'
             /\ _state' = "LISTENING"
             /\ _active_tasks' = {}
             /\ capture' = Stopped
             /\ player' = Stopped
             /\ tasks' = CancelTasks(tasks, _active_tasks)]_vars

(* shutdown() has been called on the running assistant and the session that *)
(* was being opened went on: a second call finds a task list and tasks that *)
(* it would change if it were not for the test of _running.                 *)
C39_witness ==
    /\ ~_running
    /\ main.pc = "gather"
    /\ _active_tasks # {}
    /\ \E s \in Sessions, r \in Roles : tasks[s][r].pc \notin {"none", "done"}

(* C40: the wake-word detector is fed only while the state is LISTENING,    *)
(* and it was reset at the start of the listening period before the first   *)
(* frame of the period: the state is LISTENING whenever run() is in         *)
(* _listen_for_wakeword, run() enters it with a clear detector, and the     *)
(* detector changes only there, by the frames it is fed.  No task of an     *)
(* earlier session changes the state while run() listens for the wake word. *)
C40_theorem ==
    /\ [](main.pc = "listen" => _state = "LISTENING")
    /\ [][/\ (main.pc # "listen" /\ main'.pc = "listen") => main'.detector = "clear"
          /\ main'.detector # main.detector
             => \/ main.pc # "listen" /\ main'.pc = "listen"
                \/ /\ main.pc = "listen"
                   /\ _state = "LISTENING"
                   /\ _running /\ _event /\ _buffer # <<>>
                   /\ main'.detector = "fed"
          /\ (main.pc = "listen" /\ main'.pc = "listen") => _state' = "LISTENING"]_vars

(* A second listening period: the detector, fed in the first period, has    *)
(* been reset and fed again, while a task of the session in between is      *)
(* still in flight.                                                         *)
C40_witness ==
    /\ main.pc = "listen"
    /\ session >= 1
    /\ main.detector = "fed"
    /\ \E r \in Roles : tasks[session][r].pc \notin {"none", "done"}

====
